---- MODULE Spec2Model ----
(***************************************************************************)
(* Dataset Schema SuperActor: the pipeline controller                      *)
(* (DatasetSchemaSuperActor), the input-generation retry loop, the variant *)
(* runner (DatasetSchemaGenerator), the input validator, the publisher     *)
(* (CreatePRService), main() and the schema enhancer (LLMSchemaEnhancer).  *)
(*                                                                         *)
(* The specifications share the operators below:                           *)
(*   Spec        the controller's run(): the five stages, one action per   *)
(*               stage decision and one per stage method;                  *)
(*   SpecRetry   generateTestInputs() at await granularity: the retry      *)
(*               loop over the input generator and the input validator;    *)
(*   SpecRunner  generateInitialSchema() at await granularity: the four    *)
(*               concurrent actor calls, the join, the reconciliation and  *)
(*               the dataset collection loop;                              *)
(*   SpecValidator  InputValidator.validateInputs on any four variants;    *)
(*   SpecPublisher  createPR() with CreatePRService.run() at the           *)
(*               granularity of its steps and of the calls of commitFiles; *)
(*   SpecMain    main(): the checks on the input, run(), and what is       *)
(*               stored and reported when it ends;                         *)
(*   SpecRefiner LLMSchemaEnhancer.enhanceSchema on any input and reply.   *)
(***************************************************************************)
EXTENDS Integers, Sequences, FiniteSets, TLC

VARIABLES
    input,              \* this.input (SuperActorInput), immutable
    progress,           \* this.progress
    pc,                 \* position of run()
    testInputs,         \* run(): let testInputs
    initialSchema,      \* run(): let initialSchema
    enhancedSchema,     \* run(): let enhancedSchema
    validationResults,  \* run(): let validationResults
    prResult,           \* run(): let prResult
    attempt,            \* generateTestInputs(): let attempt
    genInputs,          \* generateTestInputs(): let testInputs
    validationResult,   \* generateTestInputs(): let validationResult
    feedback,           \* feedback handed to the generator in the last call
    error,              \* the Error run() threw (its message), or NoError
    output,             \* the SuperActorOutput run() returned, or NoOutput
    calls,              \* how often each collaborator has been invoked
    runnerInputs,       \* the variants handed to runActorWithInputs
    validatedSchema,    \* the schema handed to processValidation
    publishedSchema,    \* the schema handed to CreatePRService
    rpc,                \* position of generateInitialSchema()
    rstate,             \* per variant: its actor call: not started, running, or how it ended
    rresult,            \* per variant: the RunResult its async function returned
    runResults,         \* runActorWithInputs(): const results
    datasetIds,         \* collectDatasetIds(): const datasetIds
    ci,                 \* collectDatasetIds(): position of the for loop
    rquery,             \* per variant: how the re-query of its run ended, if any
    ppc,                \* position of CreatePRService.run()
    ptrace,             \* the steps of CreatePRService.run() entered so far
    blobs,              \* commitFiles(): the blobs created, by path, in order
    currentCommit,      \* commitFiles(): const currentCommit (its sha)
    gitTree,            \* commitFiles(): the tree created in the repository
    gitCommit,          \* commitFiles(): the commit created in the repository
    branchRef,          \* what refs/heads/<branchName> points at in the repository
    refMoves,           \* how often git.updateRef has moved that ref
    pullRequest,        \* the pull request opened in the repository
    pubResult,          \* the CreatePROutput run() resolved with
    stored,             \* main(): the record under the key OUTPUT and in the dataset
    statusMessage,      \* main(): the message of Actor.exit or Actor.fail
    refinerInput,       \* LLMSchemaEnhancer.enhanceSchema(): input
    llmReply,           \* what the fetch of the LLM endpoint is going to yield
    enhancementResult,  \* the EnhancementResult enhanceSchema() resolved with
    spc,                \* position of generateSchemaFromRedashDatasets() and of what follows it
    redashIds,          \* generateSchemaFromDatasets(): const datasetIds
    generationDatasets, \* generateSchemaFromDatasets(): const generationDatasets
    validationDatasets, \* generateSchemaFromDatasets(): const validationDatasets
    datasetsWithSamples,\* generateSchemaFromDatasets(): the ids of datasetsWithSamples
    fromDatasets,       \* what generateSchemaFromDatasets() resolved with
    fromRedash,         \* what generateSchemaFromRedashDatasets() resolved with
    validatedIds,       \* processValidation(): the datasetIds handed to validateAllDatasets
    jpc,                \* position of updateActorJsonSurgically()
    originalContent,    \* updateActorJsonSurgically(): originalContent, the text of actor.json
    updatedContent,     \* what updateActorJsonSurgically() returned
    schemaInput,        \* CreatePRService: this.input.datasetSchema
    datasetSchema,      \* run(): let datasetSchema, the artifact
    qpc,                \* position of queryRedashForDatasetIds()
    attempts,           \* queryRedashForDatasetIds(): let attempts
    jobCompleted,       \* queryRedashForDatasetIds(): let jobCompleted
    jobCalls,           \* fetches of the job status so far
    jobStatusErrors,    \* 'Job status error' lines logged so far
    queryOutcome,       \* what queryRedashForDatasetIds() returned or threw
    lpc,                \* position of findActorJson() and of run() around it
    repoFiles,          \* the repository: what each candidate path holds on the branch
    probeIdx,           \* findActorJson(): the candidate the search has come to
    actorJsonResponse,  \* run(): const actorJsonResponse
    commitPaths         \* run(): the paths of const files

ctlVars == <<input, progress, pc, testInputs, initialSchema, enhancedSchema,
             validationResults, prResult, error, output, calls, runnerInputs,
             validatedSchema, publishedSchema>>
loopVars == <<attempt, genInputs, validationResult, feedback>>
runVars == <<rpc, rstate, rresult, runResults, datasetIds, ci, rquery>>
pubVars == <<ppc, ptrace, blobs, currentCommit, gitTree, gitCommit, branchRef,
             refMoves, pullRequest, pubResult>>
mainVars == <<stored, statusMessage>>
refVars == <<refinerInput, llmReply, enhancementResult>>
sampVars == <<spc, redashIds, generationDatasets, validationDatasets, datasetsWithSamples,
              fromDatasets, fromRedash, validatedIds>>
patchVars == <<jpc, originalContent, updatedContent, schemaInput, datasetSchema>>
pollVars == <<qpc, attempts, jobCompleted, jobCalls, jobStatusErrors, queryOutcome>>
locVars == <<lpc, repoFiles, probeIdx, actorJsonResponse, commitPaths>>
vars == <<ctlVars, loopVars, runVars, pubVars, mainVars, refVars, sampVars, patchVars, pollVars, locVars>>

----------------------------------------------------------------------------
(* Values *)

\* null / undefined, and the null of each record-valued variable
Null == "null"
NoError == <<>>
NoOutput == [success |-> FALSE, prUrl |-> Null, returned |-> FALSE]
NoSchemaResult == [schema |-> Null, error |-> Null]
NoValidation == [successfulRuns |-> 0, totalRuns |-> 0, overallSuccess |-> FALSE,
                 failedInputs |-> <<>>, successfulInputs |-> <<>>]
NoFeedback == [text |-> Null, successfulRuns |-> 0, totalRuns |-> 0, issues |-> <<>>]
NoValidationResults == [totalDatasets |-> 0, validDatasets |-> 0, invalidDatasets |-> 0,
                        rateNum |-> 0, rateDen |-> 1]
NoPR == [success |-> FALSE, prUrl |-> Null]
NoResult == [variant |-> Null, success |-> FALSE, datasetId |-> Null, runId |-> Null,
             error |-> Null]

\* Object.entries(variants): the four keys, in insertion order
VariantOrder == <<"minimal", "normal", "maximal", "edge">>
Variants == {VariantOrder[i] : i \in 1..Len(VariantOrder)}
\* no variants at all (a null testInputs)
NoInputs == [v \in Variants |-> "unset"]

\* the six slots of SuperActorOutput['progress']
Slots == {"actorValidation", "inputGeneration", "schemaGeneration",
          "schemaEnhancement", "schemaValidation", "prCreation"}
\* the five stages of run(), in order, with the slot and the flag of each
StageOrder == <<"inputGeneration", "schemaGeneration", "schemaEnhancement",
                "schemaValidation", "prCreation">>
StageFlag == [inputGeneration |-> "generateInputs",
              schemaGeneration |-> "generateSchema",
              schemaEnhancement |-> "enhanceSchema",
              schemaValidation |-> "validateSchema",
              prCreation |-> "createPR"]

\* What a JSON input variant can be, as far as InputValidator looks at it:
\* a value that is not an object (a truthy string, number or boolean), an
\* object without the Google-Maps fields, an object with valid ones.
InputKinds == {"scalar", "object", "gmapsObject"}
\* The target actor: one whose name includes 'Google-Maps-Reviews-Scraper'
\* and one whose name does not.
Targets == {"acme/demo-scraper", "compass/Google-Maps-Reviews-Scraper"}
IsGoogleMaps(t) == t = "compass/Google-Maps-Reviews-Scraper"

\* existingXInput: not given (or blank), a JSON object, or not JSON
ExistingKinds == {"absent", "object", "badjson"}
\* existingEnhancedSchema: not given (or blank), a JSON document, or not JSON
SubstituteKinds == {"absent", "json", "badjson"}

----------------------------------------------------------------------------
(* handleError and the messages of thrown errors.  A message is the       *)
(* sequence of its ': '-separated parts; a thrown value is an Error with  *)
(* a message, or a plain string.                                          *)

ErrorOf(message) == [isError |-> TRUE, message |-> message]
StringOf(text) == [isError |-> FALSE, message |-> <<text>>]

\* function handleError(context, error): never
handleError(context, thrown) ==
    <<context>> \o (IF thrown.isError THEN thrown.message ELSE <<"Unknown error">>)

----------------------------------------------------------------------------
(* InputValidator *)

\* validateGenericInput(input)
validateGenericInput(kind) ==
    IF kind = Null \/ kind = "scalar"
    THEN [success |-> FALSE, error |-> "Input must be an object"]
    ELSE [success |-> TRUE, error |-> Null]

\* validateGoogleMapsInput(input): an input without a numeric maxReviews fails
validateGoogleMapsInput(kind) ==
    IF kind = "gmapsObject"
    THEN [success |-> TRUE, error |-> Null]
    ELSE IF kind = Null
    THEN [success |-> FALSE, error |-> "Cannot read properties of null"]
    ELSE [success |-> FALSE, error |-> "maxReviews is required and must be a number"]

\* validateInputPattern(input, targetActorId)
validateInputPattern(kind, targetActorId) ==
    IF IsGoogleMaps(targetActorId)
    THEN validateGoogleMapsInput(kind)
    ELSE validateGenericInput(kind)

\* A faulty threshold: the one of the run results (one)
AtLeastOne(successfulRuns) == successfulRuns > 0

\* validateInputs: const overallSuccess = successfulRuns >= 2
EnoughValid(successfulRuns) == successfulRuns >= 2

\* validateInputs(targetActorId, inputs); a TypeError of the pattern check
\* is caught and recorded like a failed check
validateInputs(targetActorId, inputs) ==
    LET results == [i \in 1..Len(VariantOrder) |->
                      LET r == validateInputPattern(inputs[VariantOrder[i]], targetActorId)
                      IN  [variant |-> VariantOrder[i], success |-> r.success,
                           error |-> r.error]]
        IsOk(r) == r.success
        IsBad(r) == ~r.success
        successfulRuns == Len(SelectSeq(results, IsOk))
        failed == SelectSeq(results, IsBad)
        passed == SelectSeq(results, IsOk)
    IN  [successfulRuns |-> successfulRuns,
         totalRuns |-> Len(results),
         overallSuccess |-> EnoughValid(successfulRuns),
         failedInputs |-> [i \in 1..Len(failed) |->
                             [variant |-> failed[i].variant, error |-> failed[i].error]],
         successfulInputs |-> [i \in 1..Len(passed) |-> passed[i].variant]]

\* generateValidationFeedback(validationResult): the parts of the text that
\* depend on the result
generateValidationFeedback(vr) ==
    IF vr.overallSuccess
    THEN [text |-> "All inputs validated successfully",
          successfulRuns |-> 0, totalRuns |-> 0, issues |-> <<>>]
    ELSE [text |-> "Validation failed",
          successfulRuns |-> vr.successfulRuns, totalRuns |-> vr.totalRuns,
          issues |-> vr.failedInputs]

----------------------------------------------------------------------------
(* DatasetSchemaGenerator *)

\* How one this.client.actor(id).call(input, {timeout}) can end: it resolves
\* with a finished run that has a default dataset, with a run the platform
\* has ended on the timeout (the client resolves with the run record, which
\* has a default dataset like any other), with a run without a dataset, with
\* a falsy value, or it rejects.
RunOutcomes == {"dataset", "timedOut", "noDataset", "noRun", "throw"}
\* How this.client.run(runId).get() can end for a run without dataset
RequeryOutcomes == {"handle", "none", "throw"}

\* run.id and run.defaultDatasetId of the run started for variant v
RunIdOf(v) ==
    [minimal |-> "run-minimal", normal |-> "run-normal", maximal |-> "run-maximal",
     edge |-> "run-edge"][v]
DatasetIdOf(v) ==
    [minimal |-> "dataset-minimal", normal |-> "dataset-normal",
     maximal |-> "dataset-maximal", edge |-> "dataset-edge"][v]

\* A faulty arrow function: a call that rejects is recorded with the run id
RunResultWithRunId(v, outcome) ==
    IF outcome \in {"dataset", "timedOut"}
    THEN [variant |-> v, success |-> TRUE, datasetId |-> DatasetIdOf(v),
          runId |-> RunIdOf(v), error |-> Null]
    ELSE [variant |-> v, success |-> FALSE, datasetId |-> Null,
          runId |-> RunIdOf(v), error |-> "No dataset ID returned"]

\* the arrow function of runPromises, from the call's outcome to the RunResult
RunResultOf(v, outcome) ==
    CASE outcome \in {"dataset", "timedOut"} ->
            [variant |-> v, success |-> TRUE, datasetId |-> DatasetIdOf(v),
             runId |-> RunIdOf(v), error |-> Null]
      [] outcome = "noDataset" ->
            [variant |-> v, success |-> FALSE, datasetId |-> Null,
             runId |-> RunIdOf(v), error |-> "No dataset ID returned"]
      [] outcome = "noRun" ->
            [variant |-> v, success |-> FALSE, datasetId |-> Null,
             runId |-> Null, error |-> "No dataset ID returned"]
      [] OTHER ->
            [variant |-> v, success |-> FALSE, datasetId |-> Null,
             runId |-> Null, error |-> "call rejected"]

\* A faulty reconciliation: the threshold of the input validator (two)
validateRunResultsTwo(results) ==
    LET IsOk(r) == r.success
        successfulRuns == Len(SelectSeq(results, IsOk))
    IN  [totalRuns |-> Len(results),
         successfulRuns |-> successfulRuns,
         overallSuccess |-> successfulRuns >= 2,
         summary |-> <<successfulRuns, Len(results)>>]

\* validateRunResults(results)
validateRunResults(results) ==
    LET IsOk(r) == r.success
        successfulRuns == Len(SelectSeq(results, IsOk))
    IN  [totalRuns |-> Len(results),
         successfulRuns |-> successfulRuns,
         overallSuccess |-> successfulRuns > 0,
         summary |-> <<successfulRuns, Len(results)>>]

\* A faulty collection: failed runs are not asked for their dataset
CollectSuccessfulOnly(result, requery) ==
    IF result.success /\ result.datasetId # Null THEN <<result.datasetId>> ELSE <<>>

\* one iteration of the for loop of collectDatasetIds: what it pushes
CollectOne(result, requery) ==
    IF result.datasetId # Null
    THEN <<result.datasetId>>
    ELSE IF result.runId # Null
         THEN IF requery = "handle" THEN <<DatasetIdOf(result.variant)>> ELSE <<>>
         ELSE <<>>

\* collectDatasetIds(results), with requery[v] what run.get() does for v
RECURSIVE collectDatasetIds(_, _)
collectDatasetIds(results, requery) ==
    IF results = <<>>
    THEN <<>>
    ELSE CollectOne(Head(results), requery[Head(results).variant])
           \o collectDatasetIds(Tail(results), requery)

\* How generateDatasetSchema(datasetIds, actorId) can end: the result it returns
SynthOutcomes == {"schema", "noDataset", "noItems", "noSchemaItem", "exception"}
generateDatasetSchema(outcome) ==
    CASE outcome = "schema" -> [schema |-> "draft", error |-> Null]
      [] outcome = "noDataset" ->
            [schema |-> Null, error |-> "Schema generation run failed - no dataset returned"]
      [] outcome = "noItems" ->
            [schema |-> Null, error |-> "No schema found in generated dataset"]
      [] outcome = "noSchemaItem" ->
            [schema |-> Null, error |-> "No valid schema found in dataset items"]
      [] OTHER -> [schema |-> Null, error |-> "exception message"]

\* generateInitialSchema() after runActorWithInputs has returned `results`:
\* the error it throws, or the SchemaGenerationResult it returns
AfterRuns(results, requery, synth) ==
    LET validation == validateRunResults(results)
        ids == collectDatasetIds(results, requery)
        schemaResult == generateDatasetSchema(synth)
    IN  IF ~validation.overallSuccess
        THEN [error |-> handleError("Schema generation failed",
                            StringOf("Insufficient successful runs")),
              result |-> NoSchemaResult, synthesized |-> FALSE]
        ELSE IF Len(ids) = 0
        THEN [error |-> handleError("Schema generation failed",
                            StringOf("No datasets found from successful runs")),
              result |-> NoSchemaResult, synthesized |-> FALSE]
        ELSE IF schemaResult.error # Null
        THEN [error |-> handleError("Schema generation failed",
                            StringOf(schemaResult.error)),
              result |-> NoSchemaResult, synthesized |-> TRUE]
        ELSE [error |-> NoError, result |-> schemaResult, synthesized |-> TRUE]

\* the results of the four calls, in the order of Promise.all
ResultsOf(outcome) ==
    [i \in 1..Len(VariantOrder) |-> RunResultOf(VariantOrder[i], outcome[VariantOrder[i]])]

\* everything generateInitialSchema() can end in once the runner is called
SchemaGenerationOutcomes ==
    {AfterRuns(ResultsOf(o), q, g) :
        o \in [Variants -> RunOutcomes], q \in [Variants -> RequeryOutcomes],
        g \in SynthOutcomes}

----------------------------------------------------------------------------
(* DatasetSchemaValidator.processValidation, LLMSchemaEnhancer and        *)
(* CreatePRService as the controller sees them                            *)

MaxDatasets == 2    \* datasets the metrics backend returns, at most
MaxItems == 2       \* result items the validation actor returns, at most

\* A faulty summary: the valid items are counted against the datasets that
\* were submitted, so that no result item means no valid dataset
validateAllDatasetsOverSubmitted(nDatasets, nItems, nValid) ==
    [validDatasets |-> nValid, invalidDatasets |-> nItems - nValid,
     rateNum |-> nValid, rateDen |-> nDatasets]

\* validateAllDatasets(datasetIds, schema): the validation actor returned
\* nItems result items, nValid of them with isValid.  successRate is kept
\* as the fraction rateNum / rateDen.
validateAllDatasets(nDatasets, nItems, nValid) ==
    IF nItems = 0
    THEN [validDatasets |-> nDatasets, invalidDatasets |-> 0,
          rateNum |-> 1, rateDen |-> 1]
    ELSE [validDatasets |-> nValid, invalidDatasets |-> nItems - nValid,
          rateNum |-> nValid, rateDen |-> nItems]

\* processValidation(input), when neither the query nor the validation throws
processValidation(nDatasets, nItems, nValid) ==
    IF nDatasets = 0
    THEN [totalDatasets |-> 0, validDatasets |-> 0, invalidDatasets |-> 0,
          rateNum |-> 0, rateDen |-> 1]
    ELSE LET v == validateAllDatasets(nDatasets, nItems, nValid)
         IN  [totalDatasets |-> nDatasets, validDatasets |-> v.validDatasets,
              invalidDatasets |-> v.invalidDatasets,
              rateNum |-> v.rateNum, rateDen |-> v.rateDen]

ValidationOutcomes ==
    {processValidation(d, p[1], p[2]) :
        d \in 0..MaxDatasets,
        p \in {q \in (0..MaxItems) \X (0..MaxItems) : q[2] <= q[1]}}

----------------------------------------------------------------------------
(* DatasetSchemaSuperActor: construction *)

\* The variant kinds the input generator is taken to return: per variant a
\* value that is not an object, or an object without the Google-Maps fields
GeneratedKinds == {"scalar", "object"}

\* The existing test inputs a caller is taken to supply: existingMinimalInput
\* is given or not, the other three are of one kind
ExistingInputSets ==
    {f \in [Variants -> ExistingKinds] :
        /\ f["minimal"] # "badjson"
        /\ f["normal"] = f["maximal"] /\ f["maximal"] = f["edge"]}

\* How many of the three credentials a caller is taken to leave out or blank
MaxMissingCredentials == 1

Missing(in) ==
    (IF in.redashToken THEN 0 ELSE 1) + (IF in.githubLink THEN 0 ELSE 1)
        + (IF in.githubToken THEN 0 ELSE 1)

\* SuperActorInput.  A credential is TRUE when it is given and not blank.
Inputs ==
    {in \in [actorTechnicalName : Targets,
             generateInputs : BOOLEAN, generateSchema : BOOLEAN,
             enhanceSchema : BOOLEAN, validateSchema : BOOLEAN, createPR : BOOLEAN,
             existingInputs : ExistingInputSets,
             existingEnhancedSchema : SubstituteKinds,
             redashToken : BOOLEAN, githubLink : BOOLEAN, githubToken : BOOLEAN] :
        Missing(in) <= MaxMissingCredentials}

NoCalls == [generator |-> 0, inputValidator |-> 0, runner |-> 0, synthesizer |-> 0,
            enhancer |-> 0, schemaValidator |-> 0, publisher |-> 0, fetch |-> 0]

\* the locals of generateTestInputs() as declared
LoopIdle ==
    /\ attempt = 0
    /\ genInputs = NoInputs
    /\ validationResult = NoValidation
    /\ feedback = NoFeedback

\* the runner's part of the state before runActorWithInputs is called
RunnerIdle ==
    /\ rpc = "idle"
    /\ rstate = [v \in Variants |-> "notStarted"]
    /\ rresult = [v \in Variants |-> NoResult]
    /\ runResults = <<>>
    /\ datasetIds = <<>>
    /\ ci = 0
    /\ rquery = [v \in Variants |-> "notAsked"]

\* What the repository and CreatePRService.run() hold before run() is called
NoTree == [base_tree |-> Null, paths |-> {}]
NoCommit == [tree |-> NoTree, parent |-> Null]
NoPullRequest == [head |-> Null, base |-> Null]
NoPubResult == [success |-> FALSE, prUrl |-> Null, prInfo |-> Null,
                error |-> <<>>, returned |-> FALSE]

PublisherIdle ==
    /\ ppc = "idle"
    /\ ptrace = <<>>
    /\ blobs = <<>>
    /\ currentCommit = Null
    /\ gitTree = NoTree
    /\ gitCommit = NoCommit
    /\ branchRef = "absent"
    /\ refMoves = 0
    /\ pullRequest = NoPullRequest
    /\ pubResult = NoPubResult

\* What main() has stored and reported before run() has ended
NoStored == [success |-> FALSE, prUrl |-> Null,
             progress |-> [s \in Slots |-> "skipped"], stored |-> FALSE]
NoStatus == <<>>

MainIdle ==
    /\ stored = NoStored
    /\ statusMessage = NoStatus

\* How many field names the schemas of the enhancer are drawn from
MaxFields == 2
FieldPool == <<"title", "url", "price", "rating">>
FieldNames == {FieldPool[i] : i \in 1..MaxFields}

\* A schema as enhanceSchema() looks at it: whether it has a truthy
\* actorSpecification, what its fields is (nothing, an object, or a string
\* that is not empty), and the names in a fields that is an object
FieldsTypes == {"undefined", "object", "string"}
Schemas ==
    {s \in [actorSpecification : BOOLEAN, fieldsType : FieldsTypes,
             fields : SUBSET FieldNames] :
        s.fieldsType # "object" => s.fields = {}}
NoSchema == [actorSpecification |-> FALSE, fieldsType |-> "undefined", fields |-> {}]

\* !schema.fields is false
TruthyFields(schema) == schema.fieldsType # "undefined"

\* schema.fields is truthy and typeof schema.fields === 'object'
ObjectFields(schema) == schema.fieldsType = "object"

\* EnhancementInput; size is the class of JSON.stringify(input).length
NoRefinerInput == [actorName |-> FALSE, hasSchema |-> FALSE, datasetSchema |-> NoSchema,
                   size |-> "small"]
NoReply == [kind |-> "none", form |-> "bare", parses |-> FALSE, value |-> NoSchema]
NoEnhancement == [success |-> FALSE, enhancedSchema |-> NoSchema, error |-> "",
                  returned |-> FALSE]

RefinerIdle ==
    /\ refinerInput = NoRefinerInput
    /\ llmReply = NoReply
    /\ enhancementResult = NoEnhancement

\* What the sampling of production datasets holds before it is started
NoFromDatasets == [success |-> FALSE, schema |-> Null, error |-> "", datasetsUsed |-> <<>>,
                   validationDatasets |-> <<>>, returned |-> FALSE]
NoFromRedash == [schema |-> Null, error |-> "", generatedBy |-> "redash_datasets",
                 returned |-> FALSE]

SamplingIdle ==
    /\ spc = "idle"
    /\ redashIds = <<>>
    /\ generationDatasets = <<>>
    /\ validationDatasets = <<>>
    /\ datasetsWithSamples = <<>>
    /\ fromDatasets = NoFromDatasets
    /\ fromRedash = NoFromRedash
    /\ validatedIds = <<>>

\* no document: updateActorJsonSurgically() has not been called, or has thrown
NoDocument == [t |-> "none"]

\* no schema handed to the service, and no artifact built
NoSchemaInput == [shape |-> "none"]
NoArtifact == [built |-> FALSE]

PatchIdle ==
    /\ jpc = "idle"
    /\ originalContent = NoDocument
    /\ updatedContent = NoDocument
    /\ schemaInput = NoSchemaInput
    /\ datasetSchema = NoArtifact

\* queryRedashForDatasetIds() has neither returned nor thrown
NoQueryOutcome == [returned |-> FALSE, rows |-> <<>>, error |-> <<>>]

PollingIdle ==
    /\ qpc = "idle"
    /\ attempts = 0
    /\ jobCompleted = FALSE
    /\ jobCalls = 0
    /\ jobStatusErrors = 0
    /\ queryOutcome = NoQueryOutcome

\* findActorJson() has not returned
NoPath == [dir |-> "none", name |-> "none"]
NoActorJson == [content |-> NoPath, path |-> NoPath]

LocateIdle ==
    /\ lpc = "idle"
    /\ repoFiles = <<>>
    /\ probeIdx = 0
    /\ actorJsonResponse = NoActorJson
    /\ commitPaths = <<>>

\* constructor(input), and the locals of run() as declared
Constructed(in) ==
    /\ input = in
    /\ progress = [s \in Slots |-> "skipped"]
    /\ testInputs = NoInputs
    /\ initialSchema = NoSchemaResult
    /\ enhancedSchema = Null
    /\ validationResults = NoValidationResults
    /\ prResult = NoPR
    /\ error = NoError
    /\ output = NoOutput
    /\ calls = NoCalls
    /\ runnerInputs = NoInputs
    /\ validatedSchema = Null
    /\ publishedSchema = Null

Init ==
    /\ \E in \in Inputs : Constructed(in)
    /\ pc = "step1"
    /\ LoopIdle
    /\ RunnerIdle
    /\ PublisherIdle
    /\ MainIdle
    /\ RefinerIdle
    /\ SamplingIdle
    /\ PatchIdle
    /\ PollingIdle
    /\ LocateIdle

----------------------------------------------------------------------------
(* DatasetSchemaSuperActor.run and the stage methods *)

maxAttempts == 3

\* A faulty update: the progress map is built afresh around the one slot
MarkAfresh(slot, status) == [s \in Slots |-> IF s = slot THEN status ELSE "skipped"]

\* this.progress.<slot> = status
Mark(slot, status) == [progress EXCEPT ![slot] = status]

\* A faulty order of the steps: the step after the next one
SkipAhead(slot) ==
    [inputGeneration |-> "step3", schemaGeneration |-> "step4",
     schemaEnhancement |-> "step5", schemaValidation |-> "return",
     prCreation |-> "return"][slot]

\* run(): where control goes once the stage of a slot is over
StepAfter(slot) ==
    [inputGeneration |-> "step2", schemaGeneration |-> "step3",
     schemaEnhancement |-> "step4", schemaValidation |-> "step5",
     prCreation |-> "return"][slot]
Called(who) == [calls EXCEPT ![who] = @ + 1]

\* A faulty catch block: the slot is marked, the error is swallowed and
\* run() goes on with the next step
ContinueAfterFailure(slot, message) ==
    /\ progress' = Mark(slot, "failed")
    /\ error' = message
    /\ pc' = StepAfter(slot)

\* a stage method throws: its catch block marks the slot, run() rethrows
Fail(slot, message) ==
    /\ progress' = Mark(slot, "failed")
    /\ error' = message
    /\ pc' = "failed"

\* The answers the input generator is taken to return
GeneratorAnswers == [Variants -> GeneratedKinds]

\* generateTestInputs(): what its catch block rethrows when the generator
\* throws, and when the attempts are used up
GeneratorFailure ==
    handleError("Test input generation failed",
        ErrorOf(handleError("OpenRouter service call failed",
                    ErrorOf(<<"fetch failed">>))))
ValidationExhausted ==
    handleError("Test input generation failed",
        ErrorOf(handleError("Input validation failed",
                    StringOf("Failed to generate valid inputs"))))

\* `Only ${successfulRuns}/${totalRuns} inputs were valid.`, the end of the text
\* generateTestInputs() builds when the loop is exhausted
OnlyValid == <<"Only 0/4 inputs were valid", "Only 1/4 inputs were valid",
               "Only 2/4 inputs were valid", "Only 3/4 inputs were valid",
               "Only 4/4 inputs were valid">>
ExhaustedText(vr) == OnlyValid[vr.successfulRuns + 1]

\* generateTestInputs(): the error thrown once the loop is exhausted
ExhaustedError(vr) ==
    handleError("Test input generation failed",
        ErrorOf(handleError("Input validation failed", StringOf(ExhaustedText(vr)))))

\* A faulty loop condition: no bound on the attempts
LoopWhileInvalid(vr, n) == ~vr.overallSuccess

\* generateTestInputs(): while (!validationResult.overallSuccess && attempt < maxAttempts)
LoopAgain(vr, n) == ~vr.overallSuccess /\ n < maxAttempts

\* generateTestInputs() from its n-th attempt on, as run() sees it: how the
\* call can end, with the calls it has made
RECURSIVE AttemptsFrom(_, _)
AttemptsFrom(targetActorId, n) ==
    {[error |-> GeneratorFailure, testInputs |-> NoInputs,
      generatorCalls |-> n, validatorCalls |-> n - 1]}
    \cup UNION {
        LET vr == validateInputs(targetActorId, ti)
        IN  IF LoopAgain(vr, n)
            THEN AttemptsFrom(targetActorId, n + 1)
            ELSE IF ~vr.overallSuccess
            THEN {[error |-> ExhaustedError(vr), testInputs |-> NoInputs,
                   generatorCalls |-> n, validatorCalls |-> n]}
            ELSE {[error |-> NoError, testInputs |-> ti,
                   generatorCalls |-> n, validatorCalls |-> n]}
        : ti \in GeneratorAnswers}

\* generateTestInputs() per target actor
InputGenerationOutcomes == [t \in Targets |-> AttemptsFrom(t, 1)]

\* run(), step 1: if (this.input.generateInputs)
BeginInputGeneration ==
    /\ pc = "step1"
    /\ IF input.generateInputs
       THEN /\ pc' = "inInputGeneration"
            /\ progress' = progress
       ELSE /\ pc' = StepAfter("inputGeneration")
            /\ progress' = Mark("inputGeneration", "skipped")
    /\ UNCHANGED <<input, testInputs, initialSchema, enhancedSchema, validationResults,
                   prResult, error, output, calls, runnerInputs, validatedSchema,
                   publishedSchema>>
    /\ UNCHANGED <<loopVars, runVars, pubVars, mainVars, refVars, sampVars, patchVars, pollVars, locVars>>

\* generateTestInputs() as run() sees it: one call, which returns the test
\* inputs or throws
GenerateTestInputs ==
    /\ pc = "inInputGeneration"
    /\ \E r \in InputGenerationOutcomes[input.actorTechnicalName] :
          /\ calls' = [calls EXCEPT !.generator = @ + r.generatorCalls,
                                    !.inputValidator = @ + r.validatorCalls]
          /\ IF r.error # NoError
             THEN /\ Fail("inputGeneration", r.error)
                  /\ testInputs' = testInputs
             ELSE /\ testInputs' = r.testInputs
                  /\ progress' = Mark("inputGeneration", "completed")
                  /\ pc' = StepAfter("inputGeneration")
                  /\ error' = error
    /\ UNCHANGED <<input, initialSchema, enhancedSchema, validationResults, prResult,
                   output, runnerInputs, validatedSchema, publishedSchema>>
    /\ UNCHANGED <<loopVars, runVars, pubVars, mainVars, refVars, sampVars, patchVars, pollVars, locVars>>

\* run(), step 2: if (this.input.generateSchema)
BeginSchemaGeneration ==
    /\ pc = "step2"
    /\ IF input.generateSchema
       THEN /\ pc' = "inSchemaGeneration"
            /\ progress' = progress
       ELSE /\ pc' = StepAfter("schemaGeneration")
            /\ progress' = Mark("schemaGeneration", "skipped")
    /\ UNCHANGED <<input, testInputs, initialSchema, enhancedSchema, validationResults,
                   prResult, error,
                   output, calls, runnerInputs, validatedSchema, publishedSchema>>
    /\ UNCHANGED <<loopVars, runVars, pubVars, mainVars, refVars, sampVars, patchVars, pollVars, locVars>>

\* hasExistingTestInputs()
hasExistingTestInputs(in) == \E v \in Variants : in.existingInputs[v] # "absent"

\* parseExistingTestInputs(): JSON.parse of an input that is not JSON throws
ParseThrows(in) == \E v \in Variants : in.existingInputs[v] = "badjson"
parseExistingTestInputs(in) ==
    [v \in Variants |-> IF in.existingInputs[v] = "absent" THEN Null ELSE "object"]

\* generateInitialSchema(testInputs): the inputsToUse it decides on, with
\* the error it throws when there are none
InputsToUse(in, generated) ==
    IF hasExistingTestInputs(in)
    THEN IF ParseThrows(in)
         THEN [inputs |-> NoInputs,
               error |-> handleError("Invalid existing test inputs",
                             StringOf("Failed to parse existing test inputs as JSON"))]
         ELSE [inputs |-> parseExistingTestInputs(in), error |-> NoError]
    ELSE IF generated # NoInputs
         THEN [inputs |-> [v \in Variants |-> generated[v]], error |-> NoError]
         ELSE [inputs |-> NoInputs,
               error |-> handleError("Schema generation failed",
                             StringOf("No test inputs available"))]

\* generateInitialSchema(testInputs) as run() sees it: one call, which
\* returns the schema result or throws
GenerateInitialSchema ==
    /\ pc = "inSchemaGeneration"
    /\ LET use == InputsToUse(input, testInputs)
       IN  IF use.error # NoError
           THEN /\ Fail("schemaGeneration", use.error)
                /\ UNCHANGED <<initialSchema, calls, runnerInputs>>
           ELSE \E r \in SchemaGenerationOutcomes :
                   /\ runnerInputs' = use.inputs
                   /\ calls' = [calls EXCEPT !.runner = @ + 1,
                                   !.synthesizer = IF r.synthesized THEN @ + 1 ELSE @]
                   /\ IF r.error # NoError
                      THEN /\ Fail("schemaGeneration", r.error)
                           /\ initialSchema' = initialSchema
                      ELSE /\ initialSchema' = r.result
                           /\ progress' = Mark("schemaGeneration", "completed")
                           /\ pc' = StepAfter("schemaGeneration")
                           /\ error' = error
    /\ UNCHANGED <<input, testInputs, enhancedSchema, validationResults, prResult,
                   output,
                   validatedSchema, publishedSchema>>
    /\ UNCHANGED <<loopVars, runVars, pubVars, mainVars, refVars, sampVars, patchVars, pollVars, locVars>>

\* run(), step 3: if (this.input.enhanceSchema)
BeginSchemaEnhancement ==
    /\ pc = "step3"
    /\ IF input.enhanceSchema
       THEN /\ pc' = "inSchemaEnhancement"
            /\ progress' = progress
       ELSE /\ pc' = StepAfter("schemaEnhancement")
            /\ progress' = Mark("schemaEnhancement", "skipped")
    /\ UNCHANGED <<input, testInputs, initialSchema, enhancedSchema, validationResults,
                   prResult, error,
                   output, calls, runnerInputs, validatedSchema, publishedSchema>>
    /\ UNCHANGED <<loopVars, runVars, pubVars, mainVars, refVars, sampVars, patchVars, pollVars, locVars>>

\* How LLMSchemaEnhancer.enhanceSchema can end: it never throws
EnhancerOutcomes == {"enhanced", "failure"}

\* enhanceSchema(initialSchema)
EnhanceSchema ==
    /\ pc = "inSchemaEnhancement"
    /\ IF input.existingEnhancedSchema # "absent"
       THEN IF input.existingEnhancedSchema = "json"
            THEN /\ enhancedSchema' = "substitute"
                 /\ progress' = Mark("schemaEnhancement", "completed")
                 /\ pc' = StepAfter("schemaEnhancement")
                 /\ UNCHANGED <<error, calls>>
            ELSE /\ Fail("schemaEnhancement",
                         handleError("Invalid existing enhanced schema",
                             StringOf("Failed to parse existing enhanced schema as JSON")))
                 /\ UNCHANGED <<enhancedSchema, calls>>
       ELSE IF initialSchema = NoSchemaResult
       THEN /\ Fail("schemaEnhancement",
                    handleError("Schema enhancement failed",
                        StringOf("No initial schema available")))
            /\ UNCHANGED <<enhancedSchema, calls>>
       ELSE \E o \in EnhancerOutcomes :
               /\ calls' = Called("enhancer")
               /\ IF o = "enhanced"
                  THEN /\ enhancedSchema' = "refined"
                       /\ progress' = Mark("schemaEnhancement", "completed")
                       /\ pc' = StepAfter("schemaEnhancement")
                       /\ error' = error
                  ELSE /\ Fail("schemaEnhancement",
                               handleError("Schema enhancement failed",
                                   StringOf("enhancementResult.error")))
                       /\ enhancedSchema' = enhancedSchema
    /\ UNCHANGED <<input, testInputs, initialSchema, validationResults, prResult,
                   output,
                   runnerInputs, validatedSchema, publishedSchema>>
    /\ UNCHANGED <<loopVars, runVars, pubVars, mainVars, refVars, sampVars, patchVars, pollVars, locVars>>

\* run(), step 4: if (this.input.validateSchema)
BeginSchemaValidation ==
    /\ pc = "step4"
    /\ IF input.validateSchema
       THEN /\ pc' = "inSchemaValidation"
            /\ progress' = progress
       ELSE /\ pc' = StepAfter("schemaValidation")
            /\ progress' = Mark("schemaValidation", "skipped")
    /\ UNCHANGED <<input, testInputs, initialSchema, enhancedSchema, validationResults,
                   prResult, error,
                   output, calls, runnerInputs, validatedSchema, publishedSchema>>
    /\ UNCHANGED <<loopVars, runVars, pubVars, mainVars, refVars, sampVars, patchVars, pollVars, locVars>>

\* A faulty threshold: half of the datasets are enough
BelowHalfRate(vr) == vr.totalDatasets > 0 /\ 2 * vr.rateNum < vr.rateDen

\* validateSchema: totalDatasets > 0 && summary.successRate < 1.0
BelowFullRate(vr) == vr.totalDatasets > 0 /\ vr.rateNum < vr.rateDen

\* What processValidation throws: the query's error as it is, the
\* validation's error wrapped by validateAllDatasets and by processValidation
ValidatorFailures ==
    {handleError("Redash query failed", ErrorOf(<<"fetch failed">>)),
     handleError("Validation failed",
         ErrorOf(handleError("Validation failed", ErrorOf(<<"actor call failed">>))))}

\* validateSchema(enhancedSchema)
ValidateSchema ==
    /\ pc = "inSchemaValidation"
    /\ IF enhancedSchema = Null
       THEN /\ Fail("schemaValidation",
                    handleError("Schema validation failed",
                        StringOf("No enhanced schema available")))
            /\ UNCHANGED <<validationResults, calls, validatedSchema>>
       ELSE IF ~input.redashToken
       THEN /\ Fail("schemaValidation",
                    handleError("Schema validation failed",
                        StringOf("Redash API token is required for validation")))
            /\ UNCHANGED <<validationResults, calls, validatedSchema>>
       ELSE /\ calls' = Called("schemaValidator")
            /\ validatedSchema' = enhancedSchema
            /\ \/ \E thrown \in ValidatorFailures :
                     /\ Fail("schemaValidation", thrown)
                     /\ UNCHANGED validationResults
               \/ \E vr \in ValidationOutcomes :
                     IF BelowFullRate(vr)
                     THEN /\ Fail("schemaValidation",
                                  handleError("Schema validation failed",
                                      StringOf("Validation failed: datasets failed validation")))
                          /\ UNCHANGED validationResults
                     ELSE IF vr.totalDatasets = 0
                     THEN /\ Fail("schemaValidation",
                                  handleError("Schema validation failed",
                                      StringOf("No datasets found for validation")))
                          /\ UNCHANGED validationResults
                     ELSE /\ validationResults' = vr
                          /\ progress' = Mark("schemaValidation", "completed")
                          /\ pc' = StepAfter("schemaValidation")
                          /\ error' = error
    /\ UNCHANGED <<input, testInputs, initialSchema, enhancedSchema, prResult,
                   output,
                   runnerInputs, publishedSchema>>
    /\ UNCHANGED <<loopVars, runVars, pubVars, mainVars, refVars, sampVars, patchVars, pollVars, locVars>>

\* run(), step 5: if (this.input.createPR)
BeginPRCreation ==
    /\ pc = "step5"
    /\ IF input.createPR
       THEN /\ pc' = "inPRCreation"
            /\ progress' = progress
       ELSE /\ pc' = StepAfter("prCreation")
            /\ progress' = Mark("prCreation", "skipped")
    /\ UNCHANGED <<input, testInputs, initialSchema, enhancedSchema, validationResults,
                   prResult, error,
                   output, calls, runnerInputs, validatedSchema, publishedSchema>>
    /\ UNCHANGED <<loopVars, runVars, pubVars, mainVars, refVars, sampVars, patchVars, pollVars, locVars>>

\* How CreatePRService.run can end: it never throws
PublisherOutcomes == {"created", "failure"}

\* createPR(enhancedSchema)
CreatePR ==
    /\ pc = "inPRCreation"
    /\ IF enhancedSchema = Null
       THEN /\ Fail("prCreation",
                    handleError("PR creation failed",
                        StringOf("No enhanced schema available")))
            /\ UNCHANGED <<prResult, calls, publishedSchema>>
       ELSE IF ~input.githubLink
       THEN /\ Fail("prCreation",
                    handleError("PR creation failed",
                        StringOf("GitHub repository link is required for PR creation")))
            /\ UNCHANGED <<prResult, calls, publishedSchema>>
       ELSE IF ~input.githubToken
       THEN /\ Fail("prCreation",
                    handleError("PR creation failed",
                        StringOf("GitHub token is required for PR creation")))
            /\ UNCHANGED <<prResult, calls, publishedSchema>>
       ELSE \E o \in PublisherOutcomes :
               /\ calls' = Called("publisher")
               /\ publishedSchema' = enhancedSchema
               /\ IF o = "created"
                  THEN /\ prResult' = [success |-> TRUE, prUrl |-> "html_url"]
                       /\ progress' = Mark("prCreation", "completed")
                       /\ pc' = StepAfter("prCreation")
                       /\ error' = error
                  ELSE /\ Fail("prCreation",
                               handleError("PR creation failed", StringOf("prResult.error")))
                       /\ prResult' = prResult
    /\ UNCHANGED <<input, testInputs, initialSchema, enhancedSchema, validationResults,
                   output,
                   runnerInputs, validatedSchema>>
    /\ UNCHANGED <<loopVars, runVars, pubVars, mainVars, refVars, sampVars, patchVars, pollVars, locVars>>

\* run(): return { success: true, prUrl: prResult?.prUrl, progress, details }
Return ==
    /\ pc = "return"
    /\ output' = [success |-> TRUE,
                  prUrl |-> IF prResult = NoPR THEN Null ELSE prResult.prUrl,
                  returned |-> TRUE]
    /\ pc' = "done"
    /\ UNCHANGED <<input, progress, testInputs, initialSchema, enhancedSchema,
                   validationResults, prResult, error, calls, runnerInputs,
                   validatedSchema, publishedSchema>>
    /\ UNCHANGED <<loopVars, runVars, pubVars, mainVars, refVars, sampVars, patchVars, pollVars, locVars>>

Next ==
    \/ BeginInputGeneration
    \/ GenerateTestInputs
    \/ BeginSchemaGeneration
    \/ GenerateInitialSchema
    \/ BeginSchemaEnhancement
    \/ EnhanceSchema
    \/ BeginSchemaValidation
    \/ ValidateSchema
    \/ BeginPRCreation
    \/ CreatePR
    \/ Return

Spec == Init /\ [][Next]_vars

----------------------------------------------------------------------------
(* generateTestInputs() step by step: the loop over the input generator   *)
(* and the input validator.                                               *)

\* run() has reached generateTestInputs
RetryInputs ==
    {in \in Inputs :
        /\ in.generateInputs /\ ~in.generateSchema
        /\ ~in.enhanceSchema /\ ~in.validateSchema /\ ~in.createPR
        /\ in.existingEnhancedSchema = "absent"
        /\ Missing(in) = 0}

InitRetry ==
    /\ \E in \in RetryInputs : Constructed(in)
    /\ pc = "generate"
    /\ LoopIdle
    /\ RunnerIdle
    /\ PublisherIdle
    /\ MainIdle
    /\ RefinerIdle
    /\ SamplingIdle
    /\ PatchIdle
    /\ PollingIdle
    /\ LocateIdle

\* A faulty feedback: the one of the second attempt is kept for the third
FeedbackKept(n, vr) ==
    IF n = 2 THEN generateValidationFeedback(vr)
    ELSE IF n > 2 THEN feedback ELSE NoFeedback

\* const feedback = attempt > 1 ? generateValidationFeedback(validationResult)
\*                              : undefined
FeedbackFor(n, vr) ==
    IF n > 1 THEN generateValidationFeedback(vr) ELSE NoFeedback

\* the loop body up to the generator's answer
Generate ==
    /\ pc = "generate"
    /\ attempt' = attempt + 1
    /\ feedback' = FeedbackFor(attempt + 1, validationResult)
    /\ calls' = Called("generator")
    /\ \/ \E ti \in GeneratorAnswers :
            /\ genInputs' = ti
            /\ pc' = "validate"
            /\ UNCHANGED <<progress, error>>
       \/ /\ Fail("inputGeneration", GeneratorFailure)
          /\ UNCHANGED genInputs
    /\ UNCHANGED <<input, testInputs, initialSchema, enhancedSchema, validationResults,
                   prResult, validationResult, output, runnerInputs, validatedSchema,
                   publishedSchema>>
    /\ UNCHANGED <<runVars, pubVars, mainVars, refVars, sampVars, patchVars, pollVars, locVars>>

\* from validateInputs to the loop condition, the return or the throw; on
\* return run() marks the stage completed
Validate ==
    /\ pc = "validate"
    /\ LET vr == validateInputs(input.actorTechnicalName, genInputs)
       IN  /\ calls' = Called("inputValidator")
           /\ validationResult' = vr
           /\ IF LoopAgain(vr, attempt)
              THEN /\ pc' = "generate"
                   /\ UNCHANGED <<testInputs, progress, error>>
              ELSE IF ~vr.overallSuccess
              THEN /\ Fail("inputGeneration", ExhaustedError(vr))
                   /\ testInputs' = testInputs
              ELSE /\ testInputs' = genInputs
                   /\ progress' = Mark("inputGeneration", "completed")
                   /\ pc' = StepAfter("inputGeneration")
                   /\ error' = error
    /\ UNCHANGED <<input, initialSchema, enhancedSchema, validationResults, prResult,
                   output, runnerInputs, validatedSchema, publishedSchema>>
    /\ UNCHANGED <<attempt, genInputs, feedback>>
    /\ UNCHANGED <<runVars, pubVars, mainVars, refVars, sampVars, patchVars, pollVars, locVars>>

NextRetry ==
    \/ Generate
    \/ Validate

SpecRetry == InitRetry /\ [][NextRetry]_vars

----------------------------------------------------------------------------
(* generateInitialSchema() step by step: runActorWithInputs with its four *)
(* concurrent calls, validateRunResults, collectDatasetIds and            *)
(* generateDatasetSchema.                                                 *)

\* run() has reached generateInitialSchema with the first step skipped
RunnerInputs ==
    {in \in Inputs :
        /\ in.actorTechnicalName = "acme/demo-scraper"
        /\ ~in.generateInputs /\ in.generateSchema
        /\ ~in.enhanceSchema /\ ~in.validateSchema /\ ~in.createPR
        /\ in.existingEnhancedSchema = "absent"
        /\ Missing(in) = 0}

InitRunner ==
    /\ \E in \in RunnerInputs : Constructed(in)
    /\ pc = "inSchemaGeneration"
    /\ LoopIdle
    /\ RunnerIdle
    /\ PublisherIdle
    /\ MainIdle
    /\ RefinerIdle
    /\ SamplingIdle
    /\ PatchIdle
    /\ PollingIdle
    /\ LocateIdle

Settled(v) == rstate[v] \in RunOutcomes
\* A faulty join: the first call to settle ends the wait (Promise.race)
AnySettled == \E v \in Variants : Settled(v)
\* await Promise.all(runPromises) is over
AllSettled == \A v \in Variants : Settled(v)
ctlRest == <<input, testInputs, enhancedSchema, validationResults, prResult, output,
             validatedSchema, publishedSchema, loopVars, pubVars, mainVars,
             refVars, sampVars, patchVars, pollVars, locVars>>

\* generateInitialSchema(): inputsToUse, then runActorWithInputs up to
\* Promise.all: the map has called the actor once per variant
StartRuns ==
    /\ pc = "inSchemaGeneration"
    /\ rpc = "idle"
    /\ LET use == InputsToUse(input, testInputs)
       IN  IF use.error # NoError
           THEN /\ Fail("schemaGeneration", use.error)
                /\ rpc' = "thrown"
                /\ UNCHANGED <<calls, runnerInputs, rstate>>
           ELSE /\ runnerInputs' = use.inputs
                /\ calls' = Called("runner")
                /\ rstate' = [v \in Variants |-> "running"]
                /\ rpc' = "awaiting"
                /\ UNCHANGED <<progress, error, pc>>
    /\ UNCHANGED <<initialSchema, rresult, runResults, datasetIds, ci, rquery>>
    /\ UNCHANGED ctlRest

\* the call for variant v ends, and v's async function returns its RunResult
Settle(v) ==
    /\ rpc = "awaiting"
    /\ rstate[v] = "running"
    /\ \E o \in RunOutcomes :
          /\ rstate' = [rstate EXCEPT ![v] = o]
          /\ rresult' = [rresult EXCEPT ![v] = RunResultOf(v, o)]
    /\ UNCHANGED <<progress, error, pc, initialSchema, calls, runnerInputs, rpc,
                   runResults, datasetIds, ci, rquery>>
    /\ UNCHANGED ctlRest

\* Promise.all resolves; runActorWithInputs returns; validateRunResults
Join ==
    /\ rpc = "awaiting"
    /\ AllSettled
    /\ LET results == [i \in 1..Len(VariantOrder) |-> rresult[VariantOrder[i]]]
       IN  /\ runResults' = results
           /\ IF ~validateRunResults(results).overallSuccess
              THEN /\ Fail("schemaGeneration",
                           handleError("Schema generation failed",
                               StringOf("Insufficient successful runs")))
                   /\ rpc' = "thrown"
                   /\ ci' = ci
              ELSE /\ rpc' = "collecting"
                   /\ ci' = 1
                   /\ UNCHANGED <<progress, error, pc>>
    /\ UNCHANGED <<initialSchema, calls, runnerInputs, rstate, rresult, datasetIds, rquery>>
    /\ UNCHANGED ctlRest

\* collectDatasetIds(): one iteration of the for loop
Collect ==
    /\ rpc = "collecting"
    /\ ci <= Len(runResults)
    /\ LET result == runResults[ci]
       IN  IF result.datasetId = Null /\ result.runId # Null
           THEN \E q \in RequeryOutcomes :
                   /\ rquery' = [rquery EXCEPT ![result.variant] = q]
                   /\ datasetIds' = datasetIds \o CollectOne(result, q)
           ELSE /\ rquery' = rquery
                /\ datasetIds' = datasetIds \o CollectOne(result, "none")
    /\ ci' = ci + 1
    /\ UNCHANGED <<progress, error, pc, initialSchema, calls, runnerInputs, rpc, rstate,
                   rresult, runResults>>
    /\ UNCHANGED ctlRest

\* collectDatasetIds() returns; generateDatasetSchema; generateInitialSchema
\* returns or throws, and run() marks the stage completed
Synthesize ==
    /\ rpc = "collecting"
    /\ ci > Len(runResults)
    /\ IF Len(datasetIds) = 0
       THEN /\ Fail("schemaGeneration",
                    handleError("Schema generation failed",
                        StringOf("No datasets found from successful runs")))
            /\ rpc' = "thrown"
            /\ UNCHANGED <<initialSchema, calls>>
       ELSE \E g \in SynthOutcomes :
               LET schemaResult == generateDatasetSchema(g)
               IN  /\ calls' = Called("synthesizer")
                   /\ IF schemaResult.error # Null
                      THEN /\ Fail("schemaGeneration",
                                   handleError("Schema generation failed",
                                       StringOf(schemaResult.error)))
                           /\ rpc' = "thrown"
                           /\ initialSchema' = initialSchema
                      ELSE /\ initialSchema' = schemaResult
                           /\ progress' = Mark("schemaGeneration", "completed")
                           /\ pc' = StepAfter("schemaGeneration")
                           /\ rpc' = "returned"
                           /\ error' = error
    /\ UNCHANGED <<runnerInputs, rstate, rresult, runResults, datasetIds, ci, rquery>>
    /\ UNCHANGED ctlRest

NextRunner ==
    \/ StartRuns
    \/ \E v \in Variants : Settle(v)
    \/ Join
    \/ Collect
    \/ Synthesize

SpecRunner == InitRunner /\ [][NextRunner]_vars

----------------------------------------------------------------------------
(* Properties of the controller (Spec) *)

\* the position of run() while the stage of a slot is running
InStagePc ==
    [inputGeneration |-> "inInputGeneration", schemaGeneration |-> "inSchemaGeneration",
     schemaEnhancement |-> "inSchemaEnhancement",
     schemaValidation |-> "inSchemaValidation", prCreation |-> "inPRCreation"]

\* how often the collaborators of a stage have been called
StageCalls(slot) ==
    CASE slot = "inputGeneration" -> calls.generator + calls.inputValidator
      [] slot = "schemaGeneration" -> calls.runner + calls.synthesizer
      [] slot = "schemaEnhancement" -> calls.enhancer
      [] slot = "schemaValidation" -> calls.schemaValidator
      [] OTHER -> calls.publisher

Stages == 1..Len(StageOrder)
Enabled(slot) == input[StageFlag[slot]]
Started(slot) ==
    pc = InStagePc[slot] \/ progress[slot] # "skipped" \/ StageCalls(slot) > 0
Ended(slot) == progress[slot] \in {"completed", "failed"}

\* C1: once a stage has failed, run() has stopped with the error (no step
\* is left to take), every later stage's slot is still 'skipped', no
\* collaborator of a later stage has been called, and no success is returned.
C1_FailFast ==
    \A i \in Stages :
        progress[StageOrder[i]] = "failed" =>
            /\ pc = "failed"
            /\ error # NoError
            /\ output = NoOutput
            /\ \A j \in Stages :
                  j > i => /\ progress[StageOrder[j]] = "skipped"
                           /\ StageCalls(StageOrder[j]) = 0

\* schema generation has failed in a run with every later stage enabled
C1_Witness ==
    /\ progress["schemaGeneration"] = "failed"
    /\ calls.runner = 1
    /\ input.enhanceSchema /\ input.validateSchema /\ input.createPR

\* C2: a stage has started only if every earlier stage is marked completed,
\* or is marked skipped and disabled; run() is inside one stage at a time.
C2_StageOrdering ==
    /\ \A k \in Stages :
          Started(StageOrder[k]) =>
              \A j \in Stages :
                  j < k => \/ progress[StageOrder[j]] = "completed"
                           \/ /\ progress[StageOrder[j]] = "skipped"
                              /\ ~Enabled(StageOrder[j])
    /\ \A j, k \in Stages :
          pc = InStagePc[StageOrder[j]] /\ pc = InStagePc[StageOrder[k]] => j = k

\* PR creation is running after three completed stages and a disabled one
C2_Witness ==
    /\ pc = "inPRCreation"
    /\ ~input.generateInputs
    /\ progress["inputGeneration"] = "skipped"
    /\ progress["schemaGeneration"] = "completed"
    /\ progress["schemaEnhancement"] = "completed"
    /\ progress["schemaValidation"] = "completed"

\* C3, as the specification states it: with refinement disabled and an
\* existing enhanced schema supplied, a validation stage that has run with
\* its token has validated the supplied schema, and a PR stage that has run
\* with its credentials has published it; with input generation disabled
\* and existing inputs supplied, a schema-generation stage that has run has
\* called the runner on those inputs.
C3_SubstituteReachesDownstream ==
    /\ ~input.enhanceSchema /\ input.existingEnhancedSchema = "json" =>
          /\ Ended("schemaValidation") /\ input.redashToken =>
                calls.schemaValidator = 1 /\ validatedSchema = "substitute"
          /\ Ended("prCreation") /\ input.githubLink /\ input.githubToken =>
                calls.publisher = 1 /\ publishedSchema = "substitute"
    /\ ~input.generateInputs /\ hasExistingTestInputs(input) /\ ~ParseThrows(input) =>
          (Ended("schemaGeneration") =>
                calls.runner = 1 /\ runnerInputs = parseExistingTestInputs(input))

\* the half of C3 about existing inputs, which the code keeps
C3_ExistingInputsReachRunner ==
    ~input.generateInputs /\ hasExistingTestInputs(input) /\ ~ParseThrows(input) =>
        (Ended("schemaGeneration") =>
            calls.runner = 1 /\ runnerInputs = parseExistingTestInputs(input))

\* the validation stage has run with refinement disabled, an existing
\* enhanced schema supplied and the token given
C3_Witness ==
    /\ ~input.enhanceSchema /\ input.existingEnhancedSchema = "json"
    /\ input.redashToken
    /\ Ended("schemaValidation")

\* the prerequisite a stage is missing, if any: the output of an earlier
\* stage that is disabled and has no substitute
MissingPrerequisite(slot) ==
    CASE slot = "schemaGeneration" ->
            IF ~input.generateInputs /\ ~hasExistingTestInputs(input)
            THEN "No test inputs available" ELSE Null
      [] slot = "schemaEnhancement" ->
            IF ~input.generateSchema /\ input.existingEnhancedSchema = "absent"
            THEN "No initial schema available" ELSE Null
      [] slot \in {"schemaValidation", "prCreation"} ->
            IF ~input.enhanceSchema /\ input.existingEnhancedSchema = "absent"
            THEN "No enhanced schema available" ELSE Null
      [] OTHER -> Null

\* C4, as the specification states it: a stage that has started without
\* its prerequisite has called no collaborator, and once it has ended it is
\* marked failed with an error that names the missing prerequisite.
C4_MissingPrerequisiteReported ==
    \A k \in Stages :
        LET slot == StageOrder[k]
        IN  Started(slot) /\ MissingPrerequisite(slot) # Null =>
                /\ StageCalls(slot) = 0
                /\ progress[slot] # "completed"
                /\ progress[slot] = "failed" =>
                      error[Len(error)] = MissingPrerequisite(slot)

\* the part of C4 about control, which the code keeps: no collaborator is
\* called, the stage is never completed, and a failed stage ends the run
C4_FailsBeforeCollaborator ==
    \A k \in Stages :
        LET slot == StageOrder[k]
        IN  Started(slot) /\ MissingPrerequisite(slot) # Null =>
                /\ StageCalls(slot) = 0
                /\ progress[slot] # "completed"
                /\ progress[slot] = "failed" => pc = "failed"

\* schema generation has failed for want of test inputs
C4_Witness ==
    /\ MissingPrerequisite("schemaGeneration") # Null
    /\ progress["schemaGeneration"] = "failed"

\* C6: when three validations have been made and no test inputs accepted,
\* the input-generation stage is marked failed, the run has stopped, and
\* neither the runner nor the synthesizer has been called.
C6_ExhaustedNeverRuns ==
    calls.inputValidator = 3 /\ testInputs = NoInputs =>
        /\ progress["inputGeneration"] = "failed"
        /\ pc = "failed"
        /\ error = ValidationExhausted
        /\ calls.generator = 3
        /\ calls.runner = 0 /\ calls.synthesizer = 0

\* the attempts are used up in a run that has schema generation enabled
\* and existing inputs to run it on
C6_Witness ==
    /\ calls.inputValidator = 3 /\ testInputs = NoInputs
    /\ input.generateSchema /\ hasExistingTestInputs(input) /\ ~ParseThrows(input)
    /\ progress["inputGeneration"] = "failed"

----------------------------------------------------------------------------
(* Properties of the retry loop (SpecRetry) *)

\* the loop has thrown because the attempts are used up
Exhausted == pc = "failed" /\ error = ValidationExhausted

\* C5: the generator is called at most 3 times, once per attempt; each
\* answer of the generator is validated exactly once before anything else
\* happens; the loop goes on only after a validation without overallSuccess
\* and with fewer than 3 attempts made, returns only the inputs of a
\* validation with overallSuccess, and is exhausted exactly when the third
\* validation is without overallSuccess.
C5_RetryLoopBound ==
    /\ calls.generator <= 3 /\ calls.generator = attempt
    /\ pc = "validate" => calls.inputValidator = attempt - 1
    /\ pc \in {"generate", "step2"} => calls.inputValidator = attempt
    /\ pc = "failed" /\ error = GeneratorFailure => calls.inputValidator = attempt - 1
    /\ pc = "generate" /\ attempt > 0 =>
          attempt < 3 /\ ~validationResult.overallSuccess
    /\ pc = "step2" =>
          /\ validationResult.overallSuccess
          /\ validationResult = validateInputs(input.actorTechnicalName, genInputs)
          /\ testInputs = genInputs
    /\ Exhausted <=>
          /\ calls.inputValidator = 3
          /\ validationResult = validateInputs(input.actorTechnicalName, genInputs)
          /\ ~validationResult.overallSuccess

\* the third validation has failed
C5_Witness == Exhausted /\ attempt = 3 /\ calls.inputValidator = 3

\* the third attempt has been accepted
C5_AcceptedAtThird == pc = "step2" /\ attempt = 3 /\ testInputs # NoInputs

----------------------------------------------------------------------------
(* Properties of the variant runner (SpecRunner) *)

\* the positions of a variant's result in the returned list
PositionsOf(v) == {i \in 1..Len(runResults) : runResults[i].variant = v}
Returned == runResults # <<>>

\* C7: whenever one variant's call has been started, all four have; the
\* list is returned only when all four calls have settled, and it holds
\* exactly one result for each variant, the one of that variant's call.
C7_RunnerJoin ==
    /\ (\E v \in Variants : rstate[v] # "notStarted") =>
          (\A v \in Variants : rstate[v] # "notStarted")
    /\ Returned =>
          /\ \A v \in Variants : Settled(v)
          /\ Len(runResults) = 4
          /\ \A v \in Variants :
                /\ Cardinality(PositionsOf(v)) = 1
                /\ \A i \in PositionsOf(v) : runResults[i] = rresult[v]

\* the list is returned after the calls settled in an order other than the
\* order they were started in, with different outcomes
C7_Witness ==
    /\ Returned
    /\ rstate["minimal"] = "throw" /\ rstate["normal"] = "dataset"
    /\ rstate["maximal"] = "noDataset" /\ rstate["edge"] = "noRun"

\* a variant's call has ended in failure: it rejected, or the platform
\* ended the run on the timeout
EndedInFailure(v) == rstate[v] \in {"throw", "timedOut"}

\* the step in which v's call settles leaves the other variants alone
Isolated(v) ==
    rstate'[v] # rstate[v] /\ rstate[v] = "running" =>
        \A w \in Variants \ {v} : rstate'[w] = rstate[w] /\ rresult'[w] = rresult[w]

\* C8, as the specification states it: a call that rejects or times out
\* leaves a failed result of that variant; the step in which a call settles
\* changes neither state nor result of another variant; and when a call has
\* ended in failure, generateInitialSchema throws only after the list of
\* results has been returned.
C8_VariantFailureIsolation ==
    /\ [](\A v \in Variants :
            EndedInFailure(v) =>
                /\ rresult[v].variant = v
                /\ ~rresult[v].success
                /\ rresult[v].error # Null)
    /\ [][\A v \in Variants : Isolated(v)]_vars
    /\ []((\E v \in Variants : EndedInFailure(v)) /\ rpc = "thrown" => Returned)

\* the part of C8 about rejected calls, which the code keeps
C8_RejectionIsolation ==
    /\ [](\A v \in Variants :
            rstate[v] = "throw" =>
                /\ rresult[v].variant = v
                /\ ~rresult[v].success
                /\ rresult[v].error # Null)
    /\ [][\A v \in Variants : Isolated(v)]_vars
    /\ []((\E v \in Variants : rstate[v] = "throw") /\ rpc = "thrown" => Returned)

\* a run ended on the timeout while the other three calls are still running
C8_Witness ==
    /\ rstate["normal"] = "timedOut"
    /\ \A w \in Variants \ {"normal"} : rstate[w] = "running"

\* the number of successful results in the returned list
Successes == Cardinality({i \in 1..Len(runResults) : runResults[i].success})

\* C9: for the returned list, validateRunResults has overallSuccess exactly
\* when some result has success, totalRuns is the length of the list and
\* successfulRuns the number of results with success; without
\* overallSuccess the schema-generation stage is failed and nothing is
\* collected or synthesized.
C9_Reconcile ==
    Returned =>
        LET validation == validateRunResults(runResults)
        IN  /\ validation.overallSuccess <=>
                  (\E i \in 1..Len(runResults) : runResults[i].success)
            /\ validation.totalRuns = Len(runResults)
            /\ validation.successfulRuns = Successes
            /\ ~validation.overallSuccess =>
                  /\ progress["schemaGeneration"] = "failed"
                  /\ pc = "failed"
                  /\ datasetIds = <<>> /\ calls.synthesizer = 0

\* exactly one of the four results is successful, and the stage goes on
C9_Witness == Returned /\ Successes = 1 /\ rpc = "collecting"

\* variant v's result has a dataset id or a run whose record yields one
Yields(v) ==
    \/ rresult[v].datasetId # Null
    \/ rresult[v].runId # Null /\ rquery[v] = "handle"
Collected == Returned /\ ci > Len(runResults)
Occurrences(id) == Cardinality({i \in 1..Len(datasetIds) : datasetIds[i] = id})

\* C10: when collectDatasetIds has gone through the list, it holds exactly
\* one dataset id for every variant whose result has one or whose run
\* record yields one, whatever the success flag, and none for any other; a
\* run record is asked for only when the result has a run id and no dataset
\* id, and a failing request adds nothing and does not fail the stage.
C10_CollectOutputHandles ==
    /\ Collected =>
          /\ \A v \in Variants :
                Occurrences(DatasetIdOf(v)) = IF Yields(v) THEN 1 ELSE 0
          /\ Len(datasetIds) = Cardinality({v \in Variants : Yields(v)})
          /\ datasetIds = collectDatasetIds(runResults, rquery)
    /\ \A v \in Variants :
          rquery[v] # "notAsked" =>
              rresult[v].datasetId = Null /\ rresult[v].runId # Null
    /\ (\E v \in Variants : rquery[v] = "throw") /\ rpc = "thrown" =>
          Collected /\ (datasetIds = <<>> \/ calls.synthesizer = 1)

\* one success and three failures, one of which yields a dataset id when
\* its run record is asked, one of which fails the request: two ids
C10_Witness ==
    /\ Collected
    /\ Successes = 1
    /\ Cardinality({v \in Variants : rquery[v] = "handle"}) = 1
    /\ \E v \in Variants : rquery[v] = "throw"
    /\ Len(datasetIds) = 2

----------------------------------------------------------------------------
(* InputValidator.validateInputs on its own (SpecValidator): any target   *)
(* and any four variants.                                                 *)

\* what the four variants handed to validateInputs can be
ValidatorInputs == [Variants -> InputKinds \cup {Null}]

InitValidator ==
    /\ \E in \in RetryInputs : Constructed(in)
    /\ pc = "validateInputs"
    /\ attempt = 0
    /\ genInputs \in ValidatorInputs
    /\ validationResult = NoValidation
    /\ feedback = NoFeedback
    /\ RunnerIdle
    /\ PublisherIdle
    /\ MainIdle
    /\ RefinerIdle
    /\ SamplingIdle
    /\ PatchIdle
    /\ PollingIdle
    /\ LocateIdle

\* validationResult = await this.inputValidator.validateInputs(target, testInputs)
ValidateInputsCall ==
    /\ pc = "validateInputs"
    /\ validationResult' = validateInputs(input.actorTechnicalName, genInputs)
    /\ calls' = Called("inputValidator")
    /\ pc' = "validated"
    /\ UNCHANGED <<input, progress, testInputs, initialSchema, enhancedSchema,
                   validationResults, prResult, error, output, runnerInputs,
                   validatedSchema, publishedSchema>>
    /\ UNCHANGED <<attempt, genInputs, feedback>>
    /\ UNCHANGED <<runVars, pubVars, mainVars, refVars, sampVars, patchVars, pollVars, locVars>>

NextValidator == ValidateInputsCall

SpecValidator == InitValidator /\ [][NextValidator]_vars

\* the variants of the validated set that pass the pattern check
Passing ==
    {v \in Variants :
        validateInputPattern(genInputs[v], input.actorTechnicalName).success}

\* C11: for every set of four variants, validateInputs reports
\* overallSuccess exactly when at least 2 of the 4 pass; successfulRuns is
\* the number that pass, and with the number of failed inputs it makes 4.
C11_ValidatorThreshold ==
    pc = "validated" =>
        /\ validationResult.overallSuccess <=> Cardinality(Passing) >= 2
        /\ validationResult.successfulRuns = Cardinality(Passing)
        /\ validationResult.successfulRuns + Len(validationResult.failedInputs) = 4
        /\ validationResult.totalRuns = 4
        /\ Len(validationResult.successfulInputs) = validationResult.successfulRuns

\* exactly two of four variants pass, and the set is accepted
C11_Witness ==
    /\ pc = "validated"
    /\ Cardinality(Passing) = 2
    /\ validationResult.overallSuccess

----------------------------------------------------------------------------
(* Properties of the controller (Spec), continued *)

FullRate(vr) == vr.totalDatasets > 0 /\ vr.rateNum = vr.rateDen

\* the step in which the schema validator is called
ValidatorCalled == calls'.schemaValidator = calls.schemaValidator + 1

\* C12: the validation stage is completed only with a result that has
\* totalDatasets > 0 and a success rate of 1; the call of the validator
\* ends either so, or with the stage failed and the run stopped; and once
\* the stage has failed the publisher is never called, PR creation stays
\* 'skipped' and nothing is returned.
C12_ValidationThreshold ==
    /\ [](progress["schemaValidation"] = "completed" =>
              /\ FullRate(validationResults)
              /\ calls.schemaValidator = 1)
    /\ [](validationResults # NoValidationResults =>
              progress["schemaValidation"] = "completed")
    /\ [][ValidatorCalled =>
              \/ /\ progress'["schemaValidation"] = "completed"
                 /\ FullRate(validationResults')
                 /\ pc' = "step5"
              \/ /\ progress'["schemaValidation"] = "failed"
                 /\ validationResults' = NoValidationResults
                 /\ pc' = "failed"]_vars
    /\ [](progress["schemaValidation"] = "failed" =>
              /\ pc = "failed"
              /\ calls.publisher = 0
              /\ progress["prCreation"] = "skipped"
              /\ output = NoOutput)

\* the validator has answered, the stage has failed on the answer, and PR
\* creation was enabled with its credentials given
C12_Witness ==
    /\ progress["schemaValidation"] = "failed"
    /\ calls.schemaValidator = 1
    /\ error = <<"Schema validation failed", "Unknown error">>
    /\ input.createPR /\ input.githubLink /\ input.githubToken


----------------------------------------------------------------------------
(* createPR() with CreatePRService.run() at the granularity of its steps   *)
(* and of the GitHub API calls of commitFiles (SpecPublisher).             *)

\* The steps of CreatePRService.run(), in the order of its body
PublisherSteps == <<"parseGitHubUrl", "getDefaultBranch", "findActorJson", "processSchema",
                    "createBranch", "commitFiles", "createPullRequest">>

\* A faulty body of run(): the pull request is opened right after the branch
NextStepUncommitted(step) ==
    [parseGitHubUrl |-> "getDefaultBranch", getDefaultBranch |-> "findActorJson",
     findActorJson |-> "processSchema", processSchema |-> "createBranch",
     createBranch |-> "createPullRequest", commitFiles |-> "createPullRequest",
     createPullRequest |-> "return"][step]

\* run(): the step that follows a step that has succeeded
NextStep(step) ==
    [parseGitHubUrl |-> "getDefaultBranch", getDefaultBranch |-> "findActorJson",
     findActorJson |-> "processSchema", processSchema |-> "createBranch",
     createBranch |-> "commitFiles", commitFiles |-> "createPullRequest",
     createPullRequest |-> "return"][step]

\* an error the GitHub client rejects with
RequestError == ErrorOf(<<"HttpError">>)

\* run(): catch (error) { return { success: false, error: error.message } }
PublisherCatch(message) ==
    /\ pubResult' = [success |-> FALSE, prUrl |-> Null, prInfo |-> Null,
                     error |-> message, returned |-> TRUE]
    /\ ppc' = "returned"

\* the two files run() hands to commitFiles, in order
Files == <<"actorJsonPath", "datasetSchemaPath">>

\* A faulty createTree request: base_tree is left out
TreeWithoutBase(entries, base) == [base_tree |-> Null, paths |-> entries]

\* git.createTree({ base_tree: currentCommit.data.commit.tree.sha, tree })
TreeOf(entries, base) == [base_tree |-> base, paths |-> entries]

\* The tree of a commit of the repository
TreeOfCommit(sha) == IF sha = "baseCommit" THEN "baseTree" ELSE Null

\* A faulty check of the service's answer: any answer counts as success
PublisherAnswered(result) == result.returned

\* createPR(): if (!prResult.success)
PublisherSucceeded(result) == result.success

\* The configurations under which run() reaches createPR() without the first
\* four collaborators: PR creation alone, or with a supplied enhanced schema
PublisherInputs ==
    {in \in Inputs :
        /\ in.createPR /\ ~in.generateInputs /\ ~in.generateSchema /\ ~in.validateSchema
        /\ in.existingEnhancedSchema = (IF in.enhanceSchema THEN "json" ELSE "absent")}

InitPublisher ==
    /\ \E in \in PublisherInputs :
          /\ input = in
          /\ progress = [[s \in Slots |-> "skipped"] EXCEPT
                            !["schemaEnhancement"] =
                                IF in.enhanceSchema THEN "completed" ELSE "skipped"]
          /\ enhancedSchema = IF in.enhanceSchema THEN "substitute" ELSE Null
    /\ testInputs = NoInputs
    /\ initialSchema = NoSchemaResult
    /\ validationResults = NoValidationResults
    /\ prResult = NoPR
    /\ error = NoError
    /\ output = NoOutput
    /\ calls = NoCalls
    /\ runnerInputs = NoInputs
    /\ validatedSchema = Null
    /\ publishedSchema = Null
    /\ pc = "inPRCreation"
    /\ LoopIdle
    /\ RunnerIdle
    /\ PublisherIdle
    /\ MainIdle
    /\ RefinerIdle
    /\ SamplingIdle
    /\ PatchIdle
    /\ PollingIdle
    /\ LocateIdle

pubCtl == <<input, testInputs, initialSchema, enhancedSchema, validationResults,
            runnerInputs, validatedSchema, loopVars, runVars, mainVars, refVars,
            sampVars, patchVars, pollVars, locVars>>
repoVars == <<blobs, currentCommit, gitTree, gitCommit, branchRef, refMoves, pullRequest>>
ctlSide == <<progress, pc, prResult, error, output, calls, publishedSchema>>

\* createPR(): the three checks, new CreatePRService(prInput), prService.run()
CreatePRStart ==
    /\ pc = "inPRCreation"
    /\ ppc = "idle"
    /\ IF enhancedSchema = Null
       THEN /\ Fail("prCreation",
                    handleError("PR creation failed",
                        StringOf("No enhanced schema available")))
            /\ UNCHANGED <<calls, publishedSchema, ppc>>
       ELSE IF ~input.githubLink
       THEN /\ Fail("prCreation",
                    handleError("PR creation failed",
                        StringOf("GitHub repository link is required for PR creation")))
            /\ UNCHANGED <<calls, publishedSchema, ppc>>
       ELSE IF ~input.githubToken
       THEN /\ Fail("prCreation",
                    handleError("PR creation failed",
                        StringOf("GitHub token is required for PR creation")))
            /\ UNCHANGED <<calls, publishedSchema, ppc>>
       ELSE /\ calls' = Called("publisher")
            /\ publishedSchema' = enhancedSchema
            /\ ppc' = PublisherSteps[1]
            /\ UNCHANGED <<progress, pc, error>>
    /\ UNCHANGED <<prResult, output, ptrace, pubResult, repoVars, pubCtl>>

\* Step 1: parseGitHubUrl(this.input.githubLink)
ParseGitHubUrl ==
    /\ ppc = "parseGitHubUrl"
    /\ ptrace' = Append(ptrace, "parseGitHubUrl")
    /\ \E parsed \in BOOLEAN :
          IF parsed
          THEN /\ ppc' = NextStep("parseGitHubUrl")
               /\ pubResult' = pubResult
          ELSE PublisherCatch(<<"Invalid GitHub URL provided">>)
    /\ UNCHANGED <<ctlSide, repoVars, pubCtl>>

\* Step 2: await this.getDefaultBranch(owner, repo)
GetDefaultBranch ==
    /\ ppc = "getDefaultBranch"
    /\ ptrace' = Append(ptrace, "getDefaultBranch")
    /\ \E ok \in BOOLEAN :
          IF ok
          THEN /\ ppc' = NextStep("getDefaultBranch")
               /\ pubResult' = pubResult
          ELSE PublisherCatch(handleError("Failed to get default branch", RequestError))
    /\ UNCHANGED <<ctlSide, repoVars, pubCtl>>

\* Step 3: await this.findActorJson(owner, repo, defaultBranch), JSON.parse
FindActorJson ==
    /\ ppc = "findActorJson"
    /\ ptrace' = Append(ptrace, "findActorJson")
    /\ \E o \in {"found", "notFound", "notJson"} :
          CASE o = "found" ->
                  /\ ppc' = NextStep("findActorJson")
                  /\ pubResult' = pubResult
            [] o = "notFound" ->
                  PublisherCatch(handleError("Failed to find actor.json",
                                     ErrorOf(<<"actor.json file not found">>)))
            [] o = "notJson" -> PublisherCatch(<<"SyntaxError">>)
    /\ UNCHANGED <<ctlSide, repoVars, pubCtl>>

\* Steps 4 to 6: the views, the dataset schema, updateActorJsonSurgically
ProcessSchema ==
    /\ ppc = "processSchema"
    /\ ptrace' = Append(ptrace, "processSchema")
    /\ \E accepted \in BOOLEAN :
          IF accepted
          THEN /\ ppc' = NextStep("processSchema")
               /\ pubResult' = pubResult
          ELSE PublisherCatch(<<"Invalid dataset schema input">>)
    /\ UNCHANGED <<ctlSide, repoVars, pubCtl>>

\* Step 7: await this.createBranch(owner, repo, branchName, defaultBranch)
CreateBranch ==
    /\ ppc = "createBranch"
    /\ ptrace' = Append(ptrace, "createBranch")
    /\ \E ok \in BOOLEAN :
          IF ok
          THEN /\ branchRef' = "baseCommit"
               /\ ppc' = NextStep("createBranch")
               /\ pubResult' = pubResult
          ELSE /\ PublisherCatch(handleError("Failed to create branch", RequestError))
               /\ branchRef' = branchRef
    /\ UNCHANGED <<ctlSide, blobs, currentCommit, gitTree, gitCommit, refMoves,
                   pullRequest, pubCtl>>

\* Step 8, commitFiles(): for (const file of files) { await git.createBlob(...) }
CreateBlob ==
    /\ ppc = "commitFiles"
    /\ ptrace' = IF blobs = <<>> THEN Append(ptrace, "commitFiles") ELSE ptrace
    /\ \E ok \in BOOLEAN :
          IF ok
          THEN /\ blobs' = Append(blobs, Files[Len(blobs) + 1])
               /\ ppc' = IF Len(blobs) + 1 < Len(Files) THEN "commitFiles" ELSE "getCommit"
               /\ pubResult' = pubResult
          ELSE /\ PublisherCatch(handleError("Failed to commit files", RequestError))
               /\ blobs' = blobs
    /\ UNCHANGED <<ctlSide, currentCommit, gitTree, gitCommit, branchRef, refMoves,
                   pullRequest, pubCtl>>

\* commitFiles(): currentCommit = await repos.getCommit({ ref: branch })
GetCommit ==
    /\ ppc = "getCommit"
    /\ \E ok \in BOOLEAN :
          IF ok
          THEN /\ currentCommit' = branchRef
               /\ ppc' = "createTree"
               /\ pubResult' = pubResult
          ELSE /\ PublisherCatch(handleError("Failed to commit files", RequestError))
               /\ currentCommit' = currentCommit
    /\ UNCHANGED <<ctlSide, ptrace, blobs, gitTree, gitCommit, branchRef, refMoves,
                   pullRequest, pubCtl>>

\* commitFiles(): newTree = await git.createTree({ base_tree, tree })
CreateTree ==
    /\ ppc = "createTree"
    /\ \E ok \in BOOLEAN :
          IF ok
          THEN /\ gitTree' = TreeOf({blobs[i] : i \in 1..Len(blobs)},
                                    TreeOfCommit(currentCommit))
               /\ ppc' = "createCommit"
               /\ pubResult' = pubResult
          ELSE /\ PublisherCatch(handleError("Failed to commit files", RequestError))
               /\ gitTree' = gitTree
    /\ UNCHANGED <<ctlSide, ptrace, blobs, currentCommit, gitCommit, branchRef, refMoves,
                   pullRequest, pubCtl>>

\* commitFiles(): newCommit = await git.createCommit({ tree, parents })
CreateCommit ==
    /\ ppc = "createCommit"
    /\ \E ok \in BOOLEAN :
          IF ok
          THEN /\ gitCommit' = [tree |-> gitTree, parent |-> currentCommit]
               /\ ppc' = "updateRef"
               /\ pubResult' = pubResult
          ELSE /\ PublisherCatch(handleError("Failed to commit files", RequestError))
               /\ gitCommit' = gitCommit
    /\ UNCHANGED <<ctlSide, ptrace, blobs, currentCommit, gitTree, branchRef, refMoves,
                   pullRequest, pubCtl>>

\* commitFiles(): await git.updateRef({ ref: `heads/${branch}`, sha: newCommit.data.sha })
UpdateRef ==
    /\ ppc = "updateRef"
    /\ \E ok \in BOOLEAN :
          IF ok
          THEN /\ branchRef' = "newCommit"
               /\ refMoves' = refMoves + 1
               /\ ppc' = NextStep("commitFiles")
               /\ pubResult' = pubResult
          ELSE /\ PublisherCatch(handleError("Failed to commit files", RequestError))
               /\ UNCHANGED <<branchRef, refMoves>>
    /\ UNCHANGED <<ctlSide, ptrace, blobs, currentCommit, gitTree, gitCommit,
                   pullRequest, pubCtl>>

\* Step 9: await this.createPullRequest(owner, repo, { head: branchName, base }),
\* and the return of run()
CreatePullRequest ==
    /\ ppc = "createPullRequest"
    /\ ptrace' = Append(ptrace, "createPullRequest")
    /\ \E ok \in BOOLEAN :
          IF ok
          THEN /\ pullRequest' = [head |-> "branchName", base |-> "defaultBranch"]
               /\ pubResult' = [success |-> TRUE, prUrl |-> "html_url",
                                prInfo |-> "prResult", error |-> <<>>, returned |-> TRUE]
               /\ ppc' = "returned"
          ELSE /\ PublisherCatch(handleError("Failed to create pull request", RequestError))
               /\ pullRequest' = pullRequest
    /\ UNCHANGED <<ctlSide, blobs, currentCommit, gitTree, gitCommit, branchRef, refMoves,
                   pubCtl>>

\* createPR(): const prResult = await prService.run(), and what follows it
CreatePRResume ==
    /\ pc = "inPRCreation"
    /\ ppc = "returned"
    /\ ppc' = "done"
    /\ IF PublisherSucceeded(pubResult)
       THEN /\ prResult' = [success |-> TRUE, prUrl |-> pubResult.prUrl]
            /\ progress' = Mark("prCreation", "completed")
            /\ pc' = StepAfter("prCreation")
            /\ error' = error
       ELSE /\ Fail("prCreation",
                    handleError("PR creation failed", StringOf("prResult.error")))
            /\ prResult' = prResult
    /\ UNCHANGED <<output, calls, publishedSchema, ptrace, pubResult, repoVars, pubCtl>>

NextPublisher ==
    \/ CreatePRStart
    \/ ParseGitHubUrl
    \/ GetDefaultBranch
    \/ FindActorJson
    \/ ProcessSchema
    \/ CreateBranch
    \/ CreateBlob
    \/ GetCommit
    \/ CreateTree
    \/ CreateCommit
    \/ UpdateRef
    \/ CreatePullRequest
    \/ CreatePRResume
    \/ Return

SpecPublisher == InitPublisher /\ [][NextPublisher]_vars


----------------------------------------------------------------------------
(* Properties of the publisher (SpecPublisher) *)

\* the commit commitFiles is to produce: both files layered on the base tree
CommitOnBase ==
    [tree |-> [base_tree |-> "baseTree", paths |-> {"actorJsonPath", "datasetSchemaPath"}],
     parent |-> "baseCommit"]

\* run() has returned a failure out of the step named
FailedIn(step) ==
    /\ pubResult.returned /\ ~pubResult.success
    /\ ptrace # <<>> /\ ptrace[Len(ptrace)] = step

\* C13: once the branch exists its ref points either at the base commit or at
\* one new commit whose parent is the base commit and whose tree holds the
\* patched metadata file and the artifact file on top of the base tree; the
\* ref is moved at most once, by the last call of commitFiles; a commitFiles
\* that fails leaves the ref at the base commit, and no pull request exists
\* unless the ref has been moved.
C13_CommitFilesAtomic ==
    /\ [](branchRef \in {"absent", "baseCommit", "newCommit"})
    /\ [](branchRef = "newCommit" => gitCommit = CommitOnBase)
    /\ []((refMoves = 1) = (branchRef = "newCommit") /\ refMoves <= 1)
    /\ [](FailedIn("commitFiles") => branchRef = "baseCommit" /\ refMoves = 0)
    /\ [](pullRequest # NoPullRequest => branchRef = "newCommit")
    /\ [][refMoves' # refMoves =>
             /\ ppc = "updateRef" /\ ppc' = "createPullRequest"
             /\ gitCommit' = gitCommit /\ gitTree' = gitTree /\ blobs' = blobs]_vars

\* commitFiles has moved the ref to the new commit
C13_Witness ==
    /\ branchRef = "newCommit" /\ refMoves = 1
    /\ ptrace[Len(ptrace)] = "commitFiles"
    /\ ppc = "createPullRequest"


\* C14: when createPullRequest fails after commitFiles has moved the ref, run()
\* of the service returns a failure without prUrl and without prInfo, the
\* repository holds no pull request, and once createPR() has resumed the slot
\* prCreation is 'failed', run() has thrown and no successful output exists.
C14_PullRequestFailure ==
    FailedIn("createPullRequest") =>
        /\ refMoves = 1 /\ branchRef = "newCommit"
        /\ pubResult.prUrl = Null /\ pubResult.prInfo = Null
        /\ pullRequest = NoPullRequest
        /\ prResult = NoPR /\ output = NoOutput
        /\ progress.prCreation # "completed"
        /\ ppc = "done" =>
              /\ progress.prCreation = "failed"
              /\ pc = "failed"
              /\ error = <<"PR creation failed", "Unknown error">>

\* the pull request was refused after the commit, and createPR() has thrown
C14_Witness ==
    /\ FailedIn("createPullRequest") /\ refMoves = 1
    /\ ppc = "done" /\ pc = "failed" /\ progress.prCreation = "failed"


IsPrefix(s, t) == Len(s) <= Len(t) /\ s = SubSeq(t, 1, Len(s))

\* C15: the steps run() has entered are always an initial part of
\* parseGitHubUrl, getDefaultBranch, findActorJson, the schema processing,
\* createBranch, commitFiles, createPullRequest; run() returns success only
\* after all seven; once it has returned no further step is entered and the
\* repository is not touched again; and a run() that stops before the seventh
\* step has succeeded has returned a failure.
C15_PublisherOrder ==
    /\ [](IsPrefix(ptrace, PublisherSteps))
    /\ [](pubResult.returned /\ pubResult.success =>
             ptrace = PublisherSteps /\ pullRequest # NoPullRequest)
    /\ [](ppc \in {"returned", "done"} => pubResult.returned)
    /\ [](pubResult.returned /\ ~pubResult.success =>
             pubResult.error # <<>> /\ pullRequest = NoPullRequest)
    /\ [][pubResult.returned =>
             /\ ptrace' = ptrace /\ pubResult' = pubResult
             /\ UNCHANGED repoVars]_vars
    /\ [][ptrace' # ptrace =>
             /\ ~pubResult.returned
             /\ \E i \in 1..Len(PublisherSteps) :
                   /\ ptrace = SubSeq(PublisherSteps, 1, i - 1)
                   /\ ptrace' = SubSeq(PublisherSteps, 1, i)]_vars

\* all seven steps have been entered in order and run() has returned success
C15_Witness ==
    /\ ptrace = PublisherSteps
    /\ pubResult.returned /\ pubResult.success
    /\ refMoves = 1


----------------------------------------------------------------------------
(* Properties of the controller (Spec): what a failed run reports *)

\* The collaborator whose returned error string ends a stage, by slot
Reporting == [schemaGeneration |-> "synthesizer", schemaEnhancement |-> "enhancer",
              prCreation |-> "publisher"]

\* The error strings that collaborator can return
ReturnedErrors(slot) ==
    CASE slot = "schemaGeneration" ->
            {generateDatasetSchema(o).error : o \in SynthOutcomes} \ {Null}
      [] slot = "schemaEnhancement" -> {"enhancementResult.error"}
      [] slot = "prCreation" -> {"prResult.error"}

\* the stage of a slot has failed after its reporting collaborator was called
FailedOnReturn(slot) ==
    progress[slot] = "failed" /\ calls[Reporting[slot]] > 0

\* C16, as the specification states it: when a stage has failed on the error
\* string its collaborator returned (the synthesizer's, the enhancer's, the
\* publisher's), the error run() throws ends with that string.
C16_StageErrorVerbatim ==
    \A slot \in DOMAIN Reporting :
        FailedOnReturn(slot) => error[Len(error)] \in ReturnedErrors(slot)

\* what the code does instead: the error names the stage method's context and
\* ends with 'Unknown error'
C16_ReturnedTextDropped ==
    \A slot \in DOMAIN Reporting :
        FailedOnReturn(slot) =>
            /\ Len(error) = 2
            /\ error[1] \in {"Schema generation failed", "Schema enhancement failed",
                             "PR creation failed"}
            /\ error[2] = "Unknown error"

\* the enhancer has returned a failure and run() has thrown
C16_Witness ==
    /\ FailedOnReturn("schemaEnhancement")
    /\ pc = "failed"
    /\ error = <<"Schema enhancement failed", "Unknown error">>


----------------------------------------------------------------------------
(* main(): the checks on the input, run(), and what the caller of the      *)
(* Actor is left with (SpecMain).                                          *)

InitMain ==
    /\ \E in \in Inputs : Constructed(in)
    /\ pc = "main"
    /\ LoopIdle
    /\ RunnerIdle
    /\ PublisherIdle
    /\ MainIdle
    /\ RefinerIdle
    /\ SamplingIdle
    /\ PatchIdle
    /\ PollingIdle
    /\ LocateIdle

mainRest == <<input, testInputs, initialSchema, enhancedSchema, validationResults,
              prResult, output, calls, runnerInputs, validatedSchema, publishedSchema,
              loopVars, runVars, pubVars, refVars, sampVars, patchVars, pollVars, locVars>>

\* main(): the step-specific checks, new DatasetSchemaSuperActor(input), run()
MainStart ==
    /\ pc = "main"
    /\ IF input.validateSchema /\ ~input.redashToken
       THEN /\ error' = handleError("Input validation failed",
                            StringOf("redashToken is required when validateSchema is enabled"))
            /\ pc' = "rejected"
       ELSE IF input.createPR /\ (~input.githubLink \/ ~input.githubToken)
       THEN /\ error' = handleError("Input validation failed",
                            StringOf("githubLink and githubToken are required when createPR is enabled"))
            /\ pc' = "rejected"
       ELSE /\ pc' = "step1"
            /\ error' = error
    /\ UNCHANGED <<progress, mainRest, mainVars>>

\* what Actor.setValue('OUTPUT', result) and Actor.pushData(result) can do
StoreOutcomes == {"stored", "setValueThrows", "pushDataThrows"}

\* the record main() stores: the object run() returned
StoredOutput == [success |-> output.success, prUrl |-> output.prUrl,
                 progress |-> progress, stored |-> TRUE]

\* String(error) of an Error
String(message) == <<"Error">> \o message

\* main(): Actor.setValue, Actor.pushData, Actor.exit after run() has returned
MainStore ==
    /\ pc = "done"
    /\ \E o \in StoreOutcomes :
          /\ stored' = IF o = "setValueThrows" THEN stored ELSE StoredOutput
          /\ IF o = "stored"
             THEN /\ statusMessage' = <<"Dataset Schema SuperActor completed">>
                  /\ pc' = "exited"
                  /\ error' = error
             ELSE /\ error' = <<"storage request failed">>
                  /\ statusMessage' = String(<<"storage request failed">>)
                  /\ pc' = "exitedFailed"
    /\ UNCHANGED <<progress, mainRest>>

\* main(): catch (error) { await Actor.fail(String(error)) }
MainFail ==
    /\ pc \in {"failed", "rejected"}
    /\ statusMessage' = String(error)
    /\ pc' = "exitedFailed"
    /\ UNCHANGED <<progress, error, stored, mainRest>>

NextMain ==
    \/ MainStart
    \/ Next
    \/ MainStore
    \/ MainFail

SpecMain == InitMain /\ [][NextMain]_vars

\* a stage of run() has failed
RunFailed == \E s \in Slots : progress[s] = "failed"

\* C17, as the specification states it: once main() has ended after a failed
\* run, the caller has a stored report whose progress map is the run's: the
\* failed stage 'failed', the stages never attempted 'skipped'.
C17_FailedRunReportsProgress ==
    pc = "exitedFailed" /\ RunFailed =>
        /\ stored.stored
        /\ stored.progress = progress

\* what the code does instead: after a failed run nothing is stored, and the
\* caller has only the status message made of the error; a report with the
\* progress map exists only after a run that succeeded
C17_FailedRunReportsMessage ==
    /\ pc = "exitedFailed" /\ RunFailed =>
          /\ stored = NoStored
          /\ statusMessage = String(error)
    /\ pc = "exited" =>
          /\ stored.stored /\ stored.success
          /\ stored.progress = progress /\ ~RunFailed

\* main() has ended after schema generation failed
C17_Witness ==
    /\ pc = "exitedFailed"
    /\ progress["schemaGeneration"] = "failed"
    /\ progress["schemaEnhancement"] = "skipped"
    /\ stored = NoStored


----------------------------------------------------------------------------
(* Properties of the controller (Spec): the progress map *)

\* C18: every slot of the progress map is 'skipped' when run() starts and
\* always one of 'skipped', 'completed', 'failed'; a slot that is 'completed'
\* or 'failed' keeps its value in every later step of the run.
C18_ProgressMonotone ==
    /\ [](pc = "step1" => \A s \in Slots : progress[s] = "skipped")
    /\ [](\A s \in Slots : progress[s] \in {"skipped", "completed", "failed"})
    /\ [][\A s \in Slots : progress[s] # "skipped" => progress'[s] = progress[s]]_vars

\* a stage has been completed and a later one has then failed
C18_Witness ==
    /\ progress["inputGeneration"] = "completed"
    /\ progress["schemaGeneration"] = "completed"
    /\ progress["schemaEnhancement"] = "failed"
    /\ pc = "failed"


----------------------------------------------------------------------------
(* Properties of the retry loop (SpecRetry): the error of an exhausted loop *)

\* C19, as the specification states it: when the third validation has failed,
\* the error run() throws ends with the text that names how many of the four
\* variants the last validation found valid.
C19_ExhaustedNamesCount ==
    Exhausted => error[Len(error)] = ExhaustedText(validationResult)

\* what the code does instead: the error names the two contexts and ends with
\* 'Unknown error', whatever the count of the last validation
C19_ExhaustedCountDropped ==
    Exhausted =>
        /\ error = <<"Test input generation failed", "Input validation failed",
                     "Unknown error">>
        /\ validationResult.totalRuns = 4
        /\ validationResult.successfulRuns < 2

\* the loop is exhausted and one variant of the last attempt was valid
C19_Witness ==
    /\ Exhausted /\ attempt = maxAttempts
    /\ validationResult.successfulRuns = 1
    /\ progress["inputGeneration"] = "failed"


----------------------------------------------------------------------------
(* LLMSchemaEnhancer.enhanceSchema on its own (SpecRefiner): any input and *)
(* any reply of the LLM endpoint.                                          *)

\* the classes of input size enhanceSchema() tells apart
Sizes == {"small", "schemaTooLarge", "inputTooLarge"}

RefinerInputs ==
    {in \in [actorName : BOOLEAN, hasSchema : BOOLEAN, datasetSchema : Schemas,
             size : Sizes] :
        ~in.hasSchema => in.datasetSchema = NoSchema}

\* What the fetch can yield: a rejection, a status that is not ok, a body
\* without choices[0].message.content, or a content: a ```json block or bare
\* text, which parses to a value or does not
Replies ==
    {[kind |-> k, form |-> "bare", parses |-> FALSE, value |-> NoSchema] :
        k \in {"fetchThrows", "notOk", "noContent"}}
    \cup {r \in [kind : {"content"}, form : {"fenced", "bare"}, parses : BOOLEAN,
                 value : Schemas] :
            ~r.parses => r.value = NoSchema}

Failure(text) ==
    [success |-> FALSE, enhancedSchema |-> NoSchema, error |-> text, returned |-> TRUE]

\* enhanceSchema(): return { success: true, enhancedSchema: enrichedSchema }
Accept(in, enriched) ==
    [success |-> TRUE, enhancedSchema |-> enriched, error |-> "", returned |-> TRUE]

\* Faulty checks of the input: the limit on the schema alone is left out
ChecksWithoutSchemaLimit(in) ==
    IF ~in.actorName \/ ~in.hasSchema
    THEN Failure("Missing required input: actorName and datasetSchema are required")
    ELSE IF ~ObjectFields(in.datasetSchema)
    THEN Failure("Invalid datasetSchema: must contain a fields or properties object")
    ELSE IF in.size = "inputTooLarge"
    THEN Failure("Input too large")
    ELSE NoEnhancement

\* enhanceSchema(): the checks made before the fetch; the failure they
\* return, or NoEnhancement when the input has passed them
InputChecks(in) ==
    IF ~in.actorName \/ ~in.hasSchema
    THEN Failure("Missing required input: actorName and datasetSchema are required")
    ELSE IF ~ObjectFields(in.datasetSchema)
    THEN Failure("Invalid datasetSchema: must contain a fields or properties object")
    ELSE IF in.size = "inputTooLarge"
    THEN Failure("Input too large")
    ELSE IF in.size = "schemaTooLarge"
    THEN Failure("Dataset schema too large")
    ELSE NoEnhancement

\* enhanceSchema(): from the fetch to the return, with reply what the LLM
\* endpoint yields
AfterFetch(in, reply) ==
    IF reply.kind = "fetchThrows"
    THEN Failure("fetch failed")
    ELSE IF reply.kind = "notOk"
    THEN Failure("OpenRouter API request failed")
    ELSE IF reply.kind = "noContent"
    THEN Failure("Invalid response structure from OpenRouter service")
    ELSE IF ~reply.parses
    THEN Failure("Failed to parse enriched schema from Claude response")
    ELSE IF ~reply.value.actorSpecification \/ ~TruthyFields(reply.value)
    THEN Failure("Enriched schema does not follow Apify Actor specification format")
    ELSE Accept(in, reply.value)

\* enhanceSchema(input), with reply what the LLM endpoint yields
enhanceSchema(in, reply) ==
    IF InputChecks(in).returned THEN InputChecks(in) ELSE AfterFetch(in, reply)

InitRefiner ==
    /\ \E in \in RetryInputs : Constructed(in)
    /\ pc = "enhanceSchema"
    /\ LoopIdle
    /\ RunnerIdle
    /\ PublisherIdle
    /\ MainIdle
    /\ refinerInput \in RefinerInputs
    /\ llmReply \in Replies
    /\ enhancementResult = NoEnhancement
    /\ SamplingIdle
    /\ PatchIdle
    /\ PollingIdle
    /\ LocateIdle

\* schemaEnhancer.enhanceSchema(input) up to its first await: the checks of
\* the input and, when they pass, the fetch
EnhanceSchemaCall ==
    /\ pc = "enhanceSchema"
    /\ IF InputChecks(refinerInput).returned
       THEN /\ enhancementResult' = InputChecks(refinerInput)
            /\ calls' = Called("enhancer")
            /\ pc' = "enhanced"
       ELSE /\ enhancementResult' = enhancementResult
            /\ calls' = [calls EXCEPT !.enhancer = @ + 1, !.fetch = @ + 1]
            /\ pc' = "fetch"
    /\ UNCHANGED <<input, progress, testInputs, initialSchema, enhancedSchema,
                   validationResults, prResult, error, output, runnerInputs,
                   validatedSchema, publishedSchema>>
    /\ UNCHANGED <<refinerInput, llmReply>>
    /\ UNCHANGED <<loopVars, runVars, pubVars, mainVars, sampVars, patchVars, pollVars, locVars>>

\* enhanceSchema() from the answer of the fetch to its return
FetchSettled ==
    /\ pc = "fetch"
    /\ enhancementResult' = AfterFetch(refinerInput, llmReply)
    /\ pc' = "enhanced"
    /\ UNCHANGED <<input, progress, testInputs, initialSchema, enhancedSchema,
                   validationResults, prResult, error, output, calls, runnerInputs,
                   validatedSchema, publishedSchema>>
    /\ UNCHANGED <<refinerInput, llmReply>>
    /\ UNCHANGED <<loopVars, runVars, pubVars, mainVars, sampVars, patchVars, pollVars, locVars>>

NextRefiner ==
    \/ EnhanceSchemaCall
    \/ FetchSettled

SpecRefiner == InitRefiner /\ [][NextRefiner]_vars

\* the field set of a schema
FieldSet(schema) == schema.fields

\* enhanceSchema() has returned a success
Refined == pc = "enhanced" /\ enhancementResult.success

\* C20, as the specification states it: a successful enhanceSchema() returns
\* a schema whose field set is the field set of the input schema, whatever
\* the LLM endpoint replied.
C20_FieldSetPreserved ==
    Refined =>
        FieldSet(enhancementResult.enhancedSchema) = FieldSet(refinerInput.datasetSchema)

\* what the code does instead: a successful enhanceSchema() returns the value
\* parsed from the reply as it is, provided it has an actorSpecification and
\* a fields object; the fields of the input are not compared with it
C20_ReplyReturnedAsIs ==
    Refined =>
        /\ enhancementResult.enhancedSchema = llmReply.value
        /\ llmReply.value.actorSpecification /\ TruthyFields(llmReply.value)
        /\ ObjectFields(refinerInput.datasetSchema)

\* a successful call whose result lacks a field of the input
C20_Witness ==
    /\ Refined
    /\ FieldSet(refinerInput.datasetSchema) = FieldNames
    /\ FieldSet(enhancementResult.enhancedSchema) # FieldNames
    /\ FieldSet(enhancementResult.enhancedSchema) \subseteq FieldNames


----------------------------------------------------------------------------
(* Properties of the enhancer (SpecRefiner), continued *)

\* the input has no fields or properties object, or is over one of the limits
Rejectable(in) == ~ObjectFields(in.datasetSchema) \/ in.size # "small"

\* C21: when the schema of the input has neither a fields nor a properties
\* object, or the serialized input is over the limit of 1 MiB, or the
\* serialized schema over the limit of 500 KiB, enhanceSchema() returns a
\* failure with an error text and has never issued the fetch.
C21_RefinerPreconditions ==
    pc # "enhanceSchema" /\ Rejectable(refinerInput) =>
        /\ pc = "enhanced"
        /\ calls.fetch = 0
        /\ enhancementResult.returned /\ ~enhancementResult.success
        /\ enhancementResult.error # ""

\* a schema over the limit of 500 KiB, otherwise acceptable, has been rejected
C21_Witness ==
    /\ pc = "enhanced" /\ calls.fetch = 0 /\ calls.enhancer = 1
    /\ refinerInput.actorName /\ ObjectFields(refinerInput.datasetSchema)
    /\ refinerInput.size = "schemaTooLarge"
    /\ ~enhancementResult.success


\* the content of the reply, a ```json block or bare text, has parsed
Parsed == llmReply.kind = "content" /\ llmReply.parses

\* C22, as the specification states it: enhanceSchema() always returns, never
\* throws; it returns a success only when the content of the reply, fenced or
\* bare, has parsed and the parsed value has an actorSpecification and a
\* fields object, and then with that value as the enhanced schema; in every
\* other case it returns a failure with an error text.
C22_RefinerPostconditions ==
    pc = "enhanced" =>
        /\ enhancementResult.returned
        /\ enhancementResult.success =>
              /\ Parsed
              /\ llmReply.value.actorSpecification /\ ObjectFields(llmReply.value)
              /\ enhancementResult.enhancedSchema = llmReply.value
        /\ ~enhancementResult.success => enhancementResult.error # ""

\* what the code does instead: the parsed value is accepted when its fields
\* is truthy, an object or not; the rest of C22 holds as stated
C22_PostconditionsTruthy ==
    pc = "enhanced" =>
        /\ enhancementResult.returned
        /\ enhancementResult.success <=>
              /\ ~InputChecks(refinerInput).returned
              /\ Parsed
              /\ llmReply.value.actorSpecification /\ TruthyFields(llmReply.value)
        /\ enhancementResult.success =>
              enhancementResult.enhancedSchema = llmReply.value
        /\ ~enhancementResult.success => enhancementResult.error # ""

\* a success on a reply whose fields is a string
C22_Witness ==
    /\ Refined /\ Parsed
    /\ llmReply.value.fieldsType = "string"
    /\ enhancementResult.enhancedSchema.fieldsType = "string"


----------------------------------------------------------------------------
(* Schema generation from production datasets, and the validation that    *)
(* follows it (SpecSampling): generateSchemaFromRedashDatasets(),          *)
(* generateSchemaFromDatasets() with splitDatasetsRandomly(), and          *)
(* processValidation() up to its call of validateAllDatasets().            *)

\* The dataset ids a row of the Redash result can carry, and how many rows
\* a result is taken to have at most
DatasetPool == {"ds1", "ds2", "ds3"}
MaxRows == 3

RECURSIVE SeqsUpTo(_, _)
SeqsUpTo(S, n) ==
    IF n = 0 THEN {<<>>}
    ELSE LET shorter == SeqsUpTo(S, n - 1)
         IN  shorter \cup {Append(q, x) : q \in {r \in shorter : Len(r) = n - 1}, x \in S}

\* queryRedashForDatasetIds(): the lists it can return; a dataset id can
\* stand in more than one row
RedashRows == SeqsUpTo(DatasetPool, MaxRows)

Range(q) == {q[i] : i \in 1..Len(q)}

\* [...datasetIds].sort(() => Math.random() - 0.5): some order of the same
\* elements
Shuffles(q) ==
    IF q = <<>> THEN {<<>>}
    ELSE {[i \in 1..Len(q) |-> q[p[i]]] : p \in Permutations(1..Len(q))}

\* A faulty split: the midpoint is rounded up
SplitAtCeiling(shuffled) ==
    LET midPoint == (Len(shuffled) + 1) \div 2
    IN  [generationDatasets |-> SubSeq(shuffled, 1, midPoint),
         validationDatasets |-> SubSeq(shuffled, midPoint + 1, Len(shuffled))]

\* splitDatasetsRandomly(): the two slices of the shuffled list
SplitAt(shuffled) ==
    LET midPoint == Len(shuffled) \div 2
    IN  [generationDatasets |-> SubSeq(shuffled, 1, midPoint),
         validationDatasets |-> SubSeq(shuffled, midPoint + 1, Len(shuffled))]

\* splitDatasetsRandomly(datasetIds): everything it can return
splitDatasetsRandomly(ids) == {SplitAt(shuffled) : shuffled \in Shuffles(ids)}

\* generateSchemaFromDatasets(): its failure results
SamplingFailure(text, reserved) ==
    [success |-> FALSE, schema |-> Null, error |-> text, datasetsUsed |-> <<>>,
     validationDatasets |-> reserved, returned |-> TRUE]

\* The configurations taken for the sampling: the target alone
SamplingInputs ==
    {in \in RetryInputs : \A v \in Variants : in.existingInputs[v] = "absent"}

InitSampling ==
    /\ \E in \in SamplingInputs : Constructed(in)
    /\ pc = "sampling"
    /\ LoopIdle
    /\ RunnerIdle
    /\ PublisherIdle
    /\ MainIdle
    /\ RefinerIdle
    /\ PatchIdle
    /\ PollingIdle
    /\ LocateIdle
    /\ redashIds = <<>>
    /\ generationDatasets = <<>>
    /\ validationDatasets = <<>>
    /\ datasetsWithSamples = <<>>
    /\ fromDatasets = NoFromDatasets
    /\ fromRedash = NoFromRedash
    /\ validatedIds = <<>>
    /\ spc = "query"

sampRest == <<ctlVars, loopVars, runVars, pubVars, mainVars, refVars, patchVars,
             pollVars, locVars>>

\* generateSchemaFromDatasets(): datasetIds = await queryRedashForDatasetIds(input)
QueryForGeneration ==
    /\ spc = "query"
    /\ \/ /\ fromDatasets' = SamplingFailure("Redash query failed", <<>>)
          /\ spc' = "resolved"
          /\ redashIds' = redashIds
       \/ \E rows \in RedashRows :
             /\ redashIds' = rows
             /\ IF Len(rows) = 0
                THEN /\ fromDatasets' = SamplingFailure("No datasets found for Actor", <<>>)
                     /\ spc' = "resolved"
                ELSE /\ fromDatasets' = fromDatasets
                     /\ spc' = "split"
    /\ UNCHANGED <<generationDatasets, validationDatasets, datasetsWithSamples, fromRedash,
                   validatedIds, sampRest>>

\* generateSchemaFromDatasets(): the call of splitDatasetsRandomly(datasetIds)
Split ==
    /\ spc = "split"
    /\ \E halves \in splitDatasetsRandomly(redashIds) :
          /\ generationDatasets' = halves.generationDatasets
          /\ validationDatasets' = halves.validationDatasets
    /\ spc' = "sample"
    /\ UNCHANGED <<redashIds, datasetsWithSamples, fromDatasets, fromRedash, validatedIds,
                   sampRest>>

\* generateSchemaFromDatasets(): the for loop over generationDatasets, in which
\* the datasets at the positions `sampled` are sampled and the others throw,
\* and the check that follows the loop
Sample ==
    /\ spc = "sample"
    /\ \E sampled \in SUBSET (1..Len(generationDatasets)) :
          LET kept == SelectSeq([i \in 1..Len(generationDatasets) |->
                                    [at |-> i, id |-> generationDatasets[i]]],
                                LAMBDA e : e.at \in sampled)
              ids == [i \in 1..Len(kept) |-> kept[i].id]
          IN  /\ datasetsWithSamples' = ids
              /\ IF Len(ids) = 0
                 THEN /\ fromDatasets' = SamplingFailure(
                              "Failed to sample data from any datasets", validationDatasets)
                      /\ spc' = "resolved"
                 ELSE /\ fromDatasets' = fromDatasets
                      /\ spc' = "generate"
    /\ UNCHANGED <<redashIds, generationDatasets, validationDatasets, fromRedash,
                   validatedIds, sampRest>>

\* generateSchemaFromDatasets(): schema = await generateSchemaFromSamples(...),
\* the success result, and the catch block
GenerateFromSamples ==
    /\ spc = "generate"
    /\ \E ok \in BOOLEAN :
          fromDatasets' =
              IF ok
              THEN [success |-> TRUE, schema |-> "draft", error |-> "",
                    datasetsUsed |-> datasetsWithSamples,
                    validationDatasets |-> validationDatasets, returned |-> TRUE]
              ELSE SamplingFailure("Schema generation run failed", <<>>)
    /\ spc' = "resolved"
    /\ UNCHANGED <<redashIds, generationDatasets, validationDatasets, datasetsWithSamples,
                   fromRedash, validatedIds, sampRest>>

\* generateSchemaFromRedashDatasets(): what it makes of the result
ResolveFromRedash ==
    /\ spc = "resolved"
    /\ IF fromDatasets.success
       THEN /\ fromRedash' = [schema |-> fromDatasets.schema, error |-> "",
                              generatedBy |-> "redash_datasets", returned |-> TRUE]
            /\ spc' = "validation"
       ELSE /\ fromRedash' = [schema |-> Null, error |-> fromDatasets.error,
                              generatedBy |-> "redash_datasets", returned |-> TRUE]
            /\ spc' = "done"
    /\ UNCHANGED <<redashIds, generationDatasets, validationDatasets, datasetsWithSamples,
                   fromDatasets, validatedIds, sampRest>>

\* What the Redash query can return when it is made again for the validation:
\* the rows of before, no rows, or one row
RowsAtValidation(before) == {before, <<>>} \cup {<<d>> : d \in DatasetPool}

\* processValidation(): datasetIds = await queryRedashForDatasetIds(input),
\* and the datasetIds it hands to validateAllDatasets
ProcessValidation ==
    /\ spc = "validation"
    /\ \/ validatedIds' = validatedIds
       \/ \E rows \in RowsAtValidation(redashIds) : validatedIds' = rows
    /\ calls' = Called("schemaValidator")
    /\ spc' = "done"
    /\ UNCHANGED <<redashIds, generationDatasets, validationDatasets, datasetsWithSamples,
                   fromDatasets, fromRedash>>
    /\ UNCHANGED <<input, progress, pc, testInputs, initialSchema, enhancedSchema,
                   validationResults, prResult, error, output, runnerInputs,
                   validatedSchema, publishedSchema>>
    /\ UNCHANGED <<loopVars, runVars, pubVars, mainVars, refVars, patchVars, pollVars, locVars>>

NextSampling ==
    \/ QueryForGeneration
    \/ Split
    \/ Sample
    \/ GenerateFromSamples
    \/ ResolveFromRedash
    \/ ProcessValidation

SpecSampling == InitSampling /\ [][NextSampling]_vars


----------------------------------------------------------------------------
(* Properties of the sampling (SpecSampling) *)

\* the list has been split
SplitDone == spc \notin {"idle", "query", "split"} /\ redashIds # <<>>

\* how often an id stands in a list
CountIn(q, d) == Cardinality({i \in 1..Len(q) : q[i] = d})

C23_SplitIsReordering ==
    /\ splitDatasetsRandomly(<<>>) =
           {[generationDatasets |-> <<>>, validationDatasets |-> <<>>]}
    /\ SplitDone =>
          /\ Len(generationDatasets) = Len(redashIds) \div 2
          /\ Len(generationDatasets) + Len(validationDatasets) = Len(redashIds)
          /\ \A d \in DatasetPool :
                CountIn(generationDatasets, d) + CountIn(validationDatasets, d)
                    = CountIn(redashIds, d)
          /\ (\A d \in DatasetPool : CountIn(redashIds, d) <= 1) =>
                Range(generationDatasets) \cap Range(validationDatasets) = {}

C24_ReservedHalfValidated ==
    /\ Range(datasetsWithSamples) \subseteq Range(generationDatasets)
    /\ fromRedash.returned /\ fromRedash.schema # Null =>
          "validationDatasets" \in DOMAIN fromRedash
    /\ spc = "done" /\ fromDatasets.success =>
          /\ Range(validatedIds) \subseteq Range(validationDatasets)
          /\ Range(validatedIds) \cap Range(datasetsWithSamples) = {}

\* what the code does: only the generation half is sampled and
\* generateSchemaFromDatasets() returns the reserved half, but
\* generateSchemaFromRedashDatasets() returns the schema without it
C24_ReservedHalfDropped ==
    /\ Range(datasetsWithSamples) \subseteq Range(generationDatasets)
    /\ fromDatasets.success =>
          /\ fromDatasets.validationDatasets = validationDatasets
          /\ fromDatasets.datasetsUsed = datasetsWithSamples
    /\ fromRedash.returned => DOMAIN fromRedash = {"schema", "error", "generatedBy", "returned"}

\* the validation has been handed a dataset that was sampled for the schema
C24_Witness ==
    /\ spc = "done" /\ fromDatasets.success
    /\ validatedIds = redashIds
    /\ Range(validatedIds) \cap Range(datasetsWithSamples) # {}
    /\ \A d \in DatasetPool : CountIn(redashIds, d) <= 1


----------------------------------------------------------------------------
(* Properties of the controller (Spec): the variants handed to the runner *)

\* C25, as the specification states it: whenever runActorWithInputs has been
\* called, each of the four variants it was handed is present, not null and
\* not missing, whether the variants were generated or supplied by the caller.
C25_FourVariantsPresent ==
    calls.runner > 0 => \A v \in Variants : runnerInputs[v] \notin {Null, "unset"}

\* what the code does: generated variants are all present, but of the
\* variants supplied by the caller exactly those that were left out are
\* handed to the runner as null
C25_SuppliedVariantsMayBeNull ==
    calls.runner > 0 =>
        IF hasExistingTestInputs(input)
        THEN \A v \in Variants :
                (runnerInputs[v] = Null) = (input.existingInputs[v] = "absent")
        ELSE \A v \in Variants : runnerInputs[v] \in GeneratedKinds

\* the runner has been called with the minimal variant alone
C25_Witness ==
    /\ calls.runner = 1
    /\ runnerInputs["minimal"] = "object"
    /\ \A v \in Variants \ {"minimal"} : runnerInputs[v] = Null


----------------------------------------------------------------------------
(* Properties of the validator (SpecValidator): the pattern check and the
   target actor *)

\* the variants of the validated set that are non-null objects
NonNullObjects == {v \in Variants : genInputs[v] \in {"object", "gmapsObject"}}

\* the variants the returned result lists as successful
ReportedPassing ==
    {validationResult.successfulInputs[i] :
        i \in 1..Len(validationResult.successfulInputs)}

\* C26, as the specification states it: for every target actor a variant
\* passes validation exactly when it is a non-null object, so the verdict
\* does not depend on the target actor.
C26_ValidationGeneric ==
    pc = "validated" => ReportedPassing = NonNullObjects

\* what the code does: the verdict is the generic one for a target whose name
\* does not include 'Google-Maps-Reviews-Scraper'; for a target whose name
\* includes it, an object passes only when it also carries the Google Maps
\* fields
C26_ValidationByTarget ==
    pc = "validated" =>
        ReportedPassing =
            IF IsGoogleMaps(input.actorTechnicalName)
            THEN {v \in Variants : genInputs[v] = "gmapsObject"}
            ELSE NonNullObjects

\* four plain objects validated for the Google Maps target: none passes
C26_Witness ==
    /\ pc = "validated"
    /\ IsGoogleMaps(input.actorTechnicalName)
    /\ \A v \in Variants : genInputs[v] = "object"
    /\ validationResult.successfulRuns = 0


----------------------------------------------------------------------------
(* Properties of schema generation (SpecRunner): the failures of the
   synthesis and the error the caller receives *)

\* generateInitialSchema() threw with no dataset to synthesize from: either
\* no run returned one ('Insufficient successful runs'), or the collection
\* came back empty ('No datasets found from successful runs')
ZeroHandlesFailure ==
    /\ rpc = "thrown"
    /\ Len(runResults) = Len(VariantOrder)
    /\ calls.synthesizer = 0
    /\ Len(datasetIds) = 0

\* generateInitialSchema() threw because generateDatasetSchema returned an error
SynthesizerFailure == rpc = "thrown" /\ calls.synthesizer > 0

\* what the caller receives when datasets were found and the generated
\* dataset holds no item shaped like a schema
NoSchemaItemError ==
    handleError("Schema generation failed",
        StringOf(generateDatasetSchema("noSchemaItem").error))

\* C27, as the specification states it: "no datasets found" and "datasets
\* found but no schema-shaped item" are different failures, and the error the
\* caller receives for the first differs from the one it receives for the
\* second.
C27_FailuresDistinguishable ==
    /\ generateDatasetSchema("noSchemaItem").error
          \notin {"No datasets found from successful runs",
                  "Insufficient successful runs"}
    /\ ZeroHandlesFailure => error # NoSchemaItemError

\* what the code does: the two failures have different texts where they
\* arise, but each text is handed to handleError as a string, so the caller
\* receives 'Schema generation failed: Unknown error' for both
C27_FailuresCollapse ==
    /\ generateDatasetSchema("noSchemaItem").error
          \notin {"No datasets found from successful runs",
                  "Insufficient successful runs"}
    /\ (ZeroHandlesFailure \/ SynthesizerFailure) =>
          error = <<"Schema generation failed", "Unknown error">>

\* no run left a dataset, and the stage failed with the error a missing
\* schema item gives as well
C27_Witness ==
    /\ ZeroHandlesFailure
    /\ \A i \in 1..Len(runResults) : runResults[i].datasetId = Null
    /\ progress.schemaGeneration = "failed"
    /\ error = NoSchemaItemError


----------------------------------------------------------------------------
(* Properties of the retry loop (SpecRetry): the feedback of each attempt *)

\* C29: the first generation attempt receives no feedback, and the feedback
\* handed to attempt k (k = 2, 3) is the one computed from the validation of
\* the inputs of attempt k-1, never from an earlier attempt's result.
C29_FeedbackFreshness ==
    /\ [](attempt <= 1 => feedback = NoFeedback)
    /\ [][(attempt' = attempt + 1 /\ attempt >= 1) =>
             feedback' = generateValidationFeedback(
                             validateInputs(input.actorTechnicalName, genInputs))]_vars

\* the third attempt has been handed the feedback of the second, whose
\* inputs fared differently from nothing passing
C29_Witness ==
    /\ attempt = 3
    /\ pc = "validate"
    /\ feedback.text = "Validation failed"
    /\ feedback.successfulRuns = 1
    /\ feedback = generateValidationFeedback(validationResult)


----------------------------------------------------------------------------
(* CreatePRService.updateActorJsonSurgically (SpecPatch): the text of      *)
(* actor.json is parsed, patched and serialized again.  A JSON text is     *)
(* modelled by the value it denotes with its number literals as written;   *)
(* a key that is missing from an object has the value Absent.              *)

Absent == [t |-> "undefined"]
JNull == [t |-> "null"]
JBool(b) == [t |-> "bool", b |-> b]
JString(s) == [t |-> "string", s |-> s]
JNumber(lit) == [t |-> "number", lit |-> lit]
JArray(items) == [t |-> "array", items |-> items]
JObject(members) == [t |-> "object", members |-> members]

\* a number literal that is not a double: 2^53 + 1
BeyondDouble == "9007199254740993"

\* the double JSON.parse reads from a number literal, as JSON.stringify
\* prints it: 2^53 + 1 is read as 2^53
ToDouble(lit) == IF lit = BeyondDouble THEN "9007199254740992" ELSE lit

\* JSON.parse(text): every number literal becomes the nearest double
RECURSIVE JSONparse(_)
JSONparse(v) ==
    CASE v.t = "number" -> JNumber(ToDouble(v.lit))
      [] v.t = "object" ->
            JObject([k \in DOMAIN v.members |-> JSONparse(v.members[k])])
      [] v.t = "array" ->
            JArray([i \in DOMAIN v.items |-> JSONparse(v.items[i])])
      [] OTHER -> v

\* if (value), !value
Truthy(v) ==
    CASE v.t \in {"undefined", "null"} -> FALSE
      [] v.t = "bool" -> v.b
      [] v.t = "string" -> v.s # ""
      [] v.t = "number" -> ToDouble(v.lit) # "0"
      [] OTHER -> TRUE

\* values without structure
Leaves ==
    {JNull, JBool(FALSE), JBool(TRUE), JString(""), JString("x"),
     JNumber("0"), JNumber("4096"), JNumber(BeyondDouble)}

\* storages: { dataset, keyValueStore }
DatasetValues ==
    {Absent, JString("./old_schema.json"),
     JObject([views |-> JObject([overview |-> JString("of the dataset")])])}
KeyValueStoreValues == {Absent, JString("./kv.json"), JNumber(BeyondDouble)}
StoragesValues ==
    {Absent} \cup Leaves \cup {JArray(<<JString("x")>>)}
    \cup {JObject([dataset |-> d, keyValueStore |-> k]) :
            d \in DatasetValues, k \in KeyValueStoreValues}

\* views at the top level
ViewsValues ==
    {Absent, JNull, JString(""), JObject([overview |-> JString("of the actor")])}

\* environmentVariables: { views, LIMIT }, a nested object with a key that
\* is named like the one removed at the top level
EnvironmentValues ==
    {Absent}
    \cup {JObject([views |-> v, LIMIT |-> l]) :
            v \in {Absent, JString("x")},
            l \in {JNumber("4096"), JNumber(BeyondDouble)}}

MemoryValues == {Absent, JNumber("4096"), JNumber(BeyondDouble)}

\* the texts of actor.json: run() has parsed the text once already, so it is
\* JSON, and has read a property of the value, so it is not null
Documents ==
    {JObject([minMemoryMbytes |-> m, environmentVariables |-> e,
              views |-> v, storages |-> s]) :
        m \in MemoryValues, e \in EnvironmentValues,
        v \in ViewsValues, s \in StoragesValues}

\* storages: { dataset: "./dataset_schema.json" }
NewStorages == JObject([dataset |-> JString("./dataset_schema.json")])

\* step 2 of the patch, for a storages that is an object
PatchStorages(actorJson) ==
    JObject([actorJson.members.storages.members
                EXCEPT !.dataset = JString("./dataset_schema.json")])

\* updateActorJsonSurgically(originalContent): the text it returns, or that
\* it throws (an assignment to a property of a primitive, in a class body)
updateActorJsonSurgically(content) ==
    LET parsed == JSONparse(content)
        actorJson == IF Truthy(parsed.members.views)
                     THEN JObject([parsed.members EXCEPT !.views = Absent])
                     ELSE parsed
        storages == actorJson.members.storages
    IN  IF ~Truthy(storages)
        THEN [thrown |-> FALSE,
              content |-> JObject([actorJson.members EXCEPT !.storages = NewStorages])]
        ELSE IF storages.t = "object"
        THEN [thrown |-> FALSE,
              content |-> JObject([actorJson.members EXCEPT
                                      !.storages = PatchStorages(actorJson)])]
        ELSE IF storages.t = "array"
        THEN [thrown |-> FALSE, content |-> actorJson]
        ELSE [thrown |-> TRUE, content |-> NoDocument]

\* run() of CreatePRService has reached step 6
PatchInputs ==
    {in \in PublisherInputs :
        /\ ~in.enhanceSchema
        /\ \A v \in Variants : in.existingInputs[v] = "absent"}

PatchInput == CHOOSE in \in PatchInputs : TRUE

\* A JSON Schema of type object as run() reads it: the names of its
\* properties, its required list and its additionalProperties, each of the
\* last two given or left out
JsonSchemas ==
    {s \in [properties : SUBSET FieldNames,
            required : [given : BOOLEAN, names : SUBSET FieldNames],
            additionalProperties : {"absent", "false", "true"}] :
        /\ s.required.names \subseteq s.properties
        /\ ~s.required.given => s.required.names = {}}

\* this.input.datasetSchema: the schema itself, the schema under `fields`,
\* or something that is neither
SchemaInputs ==
    {[shape |-> sh, schema |-> s] : sh \in {"bare", "wrapper"}, s \in JsonSchemas}
    \cup {[shape |-> "invalid"]}

\* const jsonSchema = { type, properties, required: fields.required || [],
\*                      additionalProperties: fields.additionalProperties || true }
JsonSchemaOfFields(s) ==
    [properties |-> s.properties,
     required |-> [given |-> TRUE, names |-> s.required.names],
     additionalProperties |-> "true"]

\* originalActorJson.storages?.dataset?.views
OriginalViews(content) ==
    LET storages == JSONparse(content).members.storages
    IN  IF storages.t = "object" /\ storages.members.dataset.t = "object"
        THEN storages.members.dataset.members.views
        ELSE Absent

\* generateViewsFromFields(fields): one overview over the names of the fields
generateViewsFromFields(names) ==
    JObject([overview |-> [t |-> "generated", fields |-> names]])

\* generateDatasetSchemaFromJsonSchema(jsonSchema, views)
generateDatasetSchemaFromJsonSchema(jsonSchema, views) ==
    [built |-> TRUE, fields |-> jsonSchema, views |-> views]

\* run(), steps 4 and 5: the artifact for an input and a metadata text, or
\* that the input is rejected
BuildArtifact(in, content) ==
    LET originalViews == OriginalViews(content)
        jsonSchema == IF in.shape = "bare" THEN in.schema
                      ELSE JsonSchemaOfFields(in.schema)
        views == IF Truthy(originalViews) THEN originalViews
                 ELSE generateViewsFromFields(jsonSchema.properties)
    IN  IF in.shape = "invalid"
        THEN NoArtifact
        ELSE generateDatasetSchemaFromJsonSchema(jsonSchema, views)

\* the inputs of the patch specification: one schema in each shape
PatchSchemaInputs ==
    {in \in SchemaInputs :
        in.shape # "invalid" =>
            /\ in.schema.properties = FieldNames
            /\ in.schema.required = [given |-> TRUE, names |-> {}]
            /\ in.schema.additionalProperties = "true"}

InitPatch ==
    /\ Constructed(PatchInput)
    /\ pc = "patching"
    /\ LoopIdle
    /\ RunnerIdle
    /\ PublisherIdle
    /\ MainIdle
    /\ RefinerIdle
    /\ SamplingIdle
    /\ PollingIdle
    /\ LocateIdle
    /\ jpc = "process"
    /\ originalContent \in Documents
    /\ updatedContent = NoDocument
    /\ schemaInput \in PatchSchemaInputs
    /\ datasetSchema = NoArtifact

patchRest == <<ctlVars, loopVars, runVars, pubVars, mainVars, refVars, sampVars,
               pollVars, locVars>>

\* run(), steps 4 and 5: originalViews and the dataset schema
BuildDatasetSchema ==
    /\ jpc = "process"
    /\ datasetSchema' = BuildArtifact(schemaInput, originalContent)
    /\ jpc' = IF schemaInput.shape = "invalid" THEN "thrown" ELSE "patch"
    /\ UNCHANGED <<originalContent, updatedContent, schemaInput>>
    /\ UNCHANGED patchRest

\* run(), step 6: updateActorJsonSurgically(originalActorJsonContent)
UpdateActorJson ==
    /\ jpc = "patch"
    /\ LET r == updateActorJsonSurgically(originalContent)
       IN  /\ updatedContent' = r.content
           /\ jpc' = IF r.thrown THEN "thrown" ELSE "patched"
    /\ UNCHANGED <<originalContent, schemaInput, datasetSchema>>
    /\ UNCHANGED patchRest

NextPatch ==
    \/ BuildDatasetSchema
    \/ UpdateActorJson

SpecPatch == InitPatch /\ [][NextPatch]_vars


\* the members of an object that keep the value v gives them in u, the
\* members in `touched` apart
KeepsMembers(v, u, touched) ==
    \A k \in DOMAIN v.members \ touched :
        k \in DOMAIN u.members /\ u.members[k] = v.members[k]

\* the patch of a document `before` into `after` removes nothing but the
\* top-level views and sets nothing but storages.dataset
Framed(before, after) ==
    /\ KeepsMembers(before, after, {"views", "storages"})
    /\ after.members.views \in {before.members.views, Absent}
    /\ IF before.members.storages.t = "object"
       THEN /\ after.members.storages.t = "object"
            /\ KeepsMembers(before.members.storages, after.members.storages,
                            {"dataset"})
       ELSE after.members.storages \in {before.members.storages, NewStorages}

\* C28, as the specification states it: the patch removes only the top-level
\* views and sets only storages.dataset; every other key of the document, at
\* every level, has in the returned text the value it has in the original
\* text.
C28_PatchFrame ==
    jpc = "patched" => Framed(originalContent, updatedContent)

\* what the code does: the returned text is a serialization of the parsed
\* document, so every other key has the value JSON.parse reads for it, which
\* for a number that is not a double is another number
C28_PatchFrameOfParsed ==
    jpc = "patched" =>
        /\ Framed(JSONparse(originalContent), updatedContent)
        /\ updatedContent.members.views = Absent
              \/ ~Truthy(originalContent.members.views)
        /\ updatedContent.members.storages.t = "object" =>
              updatedContent.members.storages.members.dataset
                 = JString("./dataset_schema.json")

\* a document with nothing to remove and storages.dataset already a
\* reference is patched, and its memory limit has changed
C28_Witness ==
    /\ jpc = "patched"
    /\ originalContent.members.views = Absent
    /\ originalContent.members.storages.t = "object"
    /\ originalContent.members.storages.members.keyValueStore = JString("./kv.json")
    /\ originalContent.members.environmentVariables = Absent
    /\ originalContent.members.minMemoryMbytes = JNumber(BeyondDouble)
    /\ updatedContent.members.minMemoryMbytes = JNumber("9007199254740992")


----------------------------------------------------------------------------
(* DatasetSchemaValidator.queryRedashForDatasetIds step by step            *)
(* (SpecPolling): the execution of the query, the polling of the job and   *)
(* the fetch of its results.                                               *)

\* const maxAttempts = 30 of the polling loop
jobMaxAttempts == 30

\* the rows a result carries, as dataset ids
ResultRows == {<<>>, <<"ds1">>, <<"ds1", "ds2">>}

\* return datasetIds
QueryReturned(rows) == [returned |-> TRUE, rows |-> rows, error |-> <<>>]

\* what the catch block of queryRedashForDatasetIds rethrows for an error
\* thrown inside the function
QueryThrown(thrown) ==
    [returned |-> FALSE, rows |-> <<>>,
     error |-> handleError("Redash query failed", thrown)]

\* an error raised inside the function by handleError(context, text)
Raised(context) == ErrorOf(handleError(context, StringOf("text")))

\* how one fetch of the job status can end: the promise rejects, the
\* response is not ok, or the job is reported pending, done or failed
JobResponses == {"rejected", "notOk", "pending", "status3", "status4"}

InitPolling ==
    /\ \E in \in SamplingInputs : Constructed(in)
    /\ pc = "querying"
    /\ LoopIdle
    /\ RunnerIdle
    /\ PublisherIdle
    /\ MainIdle
    /\ RefinerIdle
    /\ SamplingIdle
    /\ PatchIdle
    /\ LocateIdle
    /\ qpc = "execute"
    /\ attempts = 0
    /\ jobCompleted = FALSE
    /\ jobCalls = 0
    /\ jobStatusErrors = 0
    /\ queryOutcome = NoQueryOutcome

pollRest == <<ctlVars, loopVars, runVars, pubVars, mainVars, refVars, sampVars,
              patchVars, locVars>>

\* resolveActorId, the fetch of the cached results, the execution of the
\* query when there are none, and what the response holds
ExecuteQuery ==
    /\ qpc = "execute"
    /\ \/ /\ queryOutcome' = QueryThrown(ErrorOf(<<"No Actor ID found">>))
          /\ qpc' = "thrown"
       \/ /\ queryOutcome' = QueryThrown(ErrorOf(<<"fetch failed">>))
          /\ qpc' = "thrown"
       \/ /\ queryOutcome' = QueryThrown(Raised("Failed to execute query"))
          /\ qpc' = "thrown"
       \/ \E rows \in ResultRows :
             /\ queryOutcome' = QueryReturned(rows)
             /\ qpc' = "returned"
       \/ /\ queryOutcome' = QueryThrown(Raised("Job ID not found"))
          /\ qpc' = "thrown"
       \/ /\ queryOutcome' = queryOutcome
          /\ qpc' = "polling"
    /\ UNCHANGED <<attempts, jobCompleted, jobCalls, jobStatusErrors>>
    /\ UNCHANGED pollRest

\* A faulty loop condition: one fetch more than the budget
LoopConditionInclusive(completed, n) == ~completed /\ n <= jobMaxAttempts

\* while (!jobCompleted && attempts < maxAttempts)
LoopCondition(completed, n) == ~completed /\ n < jobMaxAttempts

\* one iteration of the polling loop
Poll ==
    /\ qpc = "polling"
    /\ LoopCondition(jobCompleted, attempts)
    /\ attempts' = attempts + 1
    /\ jobCalls' = jobCalls + 1
    /\ \E response \in JobResponses :
          CASE response = "rejected" ->
                  /\ queryOutcome' = QueryThrown(ErrorOf(<<"fetch failed">>))
                  /\ qpc' = "thrown"
                  /\ UNCHANGED <<jobCompleted, jobStatusErrors>>
            [] response = "notOk" ->
                  /\ jobStatusErrors' = jobStatusErrors + 1
                  /\ UNCHANGED <<qpc, jobCompleted, queryOutcome>>
            [] response = "pending" ->
                  UNCHANGED <<qpc, jobCompleted, jobStatusErrors, queryOutcome>>
            [] response = "status3" ->
                  /\ jobCompleted' = TRUE
                  /\ UNCHANGED <<qpc, jobStatusErrors, queryOutcome>>
            [] OTHER ->
                  /\ queryOutcome' = QueryThrown(Raised("Redash job failed"))
                  /\ qpc' = "thrown"
                  /\ UNCHANGED <<jobCompleted, jobStatusErrors>>
    /\ UNCHANGED pollRest

\* the loop is left: the timeout, or step 3, the fetch of the results
FetchResults ==
    /\ qpc = "polling"
    /\ ~LoopCondition(jobCompleted, attempts)
    /\ IF ~jobCompleted
       THEN /\ queryOutcome' = QueryThrown(Raised("Redash job timeout"))
            /\ qpc' = "thrown"
       ELSE \/ /\ queryOutcome' = QueryThrown(Raised("Query result ID not found"))
               /\ qpc' = "thrown"
            \/ /\ queryOutcome' = QueryThrown(ErrorOf(<<"fetch failed">>))
               /\ qpc' = "thrown"
            \/ /\ queryOutcome' = QueryThrown(Raised("Redash results fetch failed"))
               /\ qpc' = "thrown"
            \/ /\ queryOutcome' = QueryThrown(Raised("Redash results validation failed"))
               /\ qpc' = "thrown"
            \/ \E rows \in ResultRows :
                  /\ queryOutcome' = QueryReturned(rows)
                  /\ qpc' = "returned"
    /\ UNCHANGED <<attempts, jobCompleted, jobCalls, jobStatusErrors>>
    /\ UNCHANGED pollRest

NextPolling ==
    \/ ExecuteQuery
    \/ Poll
    \/ FetchResults

SpecPolling == InitPolling /\ [][NextPolling]_vars

\* C30, as the specification states it for the polling of the validator: a
\* fetch of the job status that fails ends the query as failed, and the job
\* status is not fetched again.
C30_NoFailureAbsorbed ==
    jobStatusErrors > 0 => (qpc = "thrown" /\ jobCalls = 1)

\* what the code does: a job status response that is not ok is logged and
\* the status is fetched again, up to 30 fetches in all; the query fails at
\* once only when the fetch rejects or the job reports status 4, and for
\* good when the 30 fetches are used up
C30_StatusErrorsAbsorbed ==
    /\ jobCalls = attempts
    /\ attempts <= jobMaxAttempts
    /\ jobStatusErrors <= attempts
    /\ (qpc = "polling" /\ jobStatusErrors > 0) =>
          (ENABLED Poll \/ ENABLED FetchResults)
    /\ (qpc = "thrown" /\ ~jobCompleted /\ attempts = jobMaxAttempts
          /\ jobStatusErrors = jobMaxAttempts) =>
          queryOutcome.error \in
              {<<"Redash query failed", "Redash job timeout", "Unknown error">>}
    /\ qpc = "returned" => (jobCompleted \/ attempts = 0)

\* the first fetch of the job status failed, the second found the job done,
\* and the query returned its rows
C30_Witness ==
    /\ qpc = "returned"
    /\ jobStatusErrors = 1
    /\ jobCalls = 2
    /\ queryOutcome.returned
    /\ queryOutcome.rows = <<"ds1", "ds2">>


----------------------------------------------------------------------------
(* Properties of the polling loop (SpecPolling): its bound and its ends *)

\* the errors queryRedashForDatasetIds throws for a job that failed, for a
\* fetch of the job status that rejected, and for a job that never finished
JobFailedError == <<"Redash query failed", "Redash job failed", "Unknown error">>
FetchRejectedError == <<"Redash query failed", "fetch failed">>
JobTimeoutError == <<"Redash query failed", "Redash job timeout", "Unknown error">>

\* the polling loop has been entered and left
PollingOver == attempts > 0 /\ (jobCompleted \/ qpc = "thrown")

PollSuccess == jobCompleted
PollError ==
    /\ ~jobCompleted /\ qpc = "thrown"
    /\ queryOutcome.error \in {JobFailedError, FetchRejectedError}
PollTimeout ==
    /\ ~jobCompleted /\ qpc = "thrown"
    /\ queryOutcome.error = JobTimeoutError

\* C31: the job status is fetched at most 30 times, and the polling loop ends
\* in exactly one of success (status 3), error (status 4 or a fetch that
\* rejects, thrown by the iteration that met it) or timeout (30 fetches, none
\* of which found status 3); the timeout is thrown as an error of its own,
\* different from the one of a failed job.
C31_PollingBounded ==
    /\ [](/\ attempts <= jobMaxAttempts
          /\ jobCalls <= jobMaxAttempts
          /\ PollingOver =>
                /\ PollSuccess \/ PollError \/ PollTimeout
                /\ ~(PollSuccess /\ PollError)
                /\ ~(PollSuccess /\ PollTimeout)
                /\ ~(PollError /\ PollTimeout)
          /\ PollTimeout => attempts = jobMaxAttempts
          /\ JobTimeoutError # JobFailedError)
    /\ [][(qpc = "polling" /\ PollError') => jobCalls' = jobCalls + 1]_vars
    /\ [][(qpc = "polling" /\ PollTimeout') => jobCalls' = jobCalls]_vars

\* thirty fetches, the last ones answered with a pending job, and the query
\* has failed on the timeout
C31_Witness ==
    /\ PollTimeout
    /\ attempts = jobMaxAttempts
    /\ jobStatusErrors = 2


----------------------------------------------------------------------------
(* CreatePRService.findActorJson step by step (SpecLocate): the search for *)
(* actor.json, and the paths run() commits to.  A path is a directory and  *)
(* a file name; the content of a file is named by the path it was read at. *)

ActorJsonAt(dir) == [dir |-> dir, name |-> "actor.json"]

\* what the search returns as path when the probe of `probe` finds a file
Candidate(probe, returns) == [probe |-> probe, returns |-> returns]
Same(dir) == Candidate(ActorJsonAt(dir), ActorJsonAt(dir))

\* The probes of findActorJson in their order, for a repository whose
\* directories packages, apps and libs list one directory `a` and whose
\* directory actors lists `a` and `b`: searchPaths, then packages, apps,
\* actors (for each directory .actor/actor.json, then actor.json, for which
\* the path of the former is returned), then otherDirs
Candidates ==
    <<Same(""), Same(".actor"), Same("src"), Same("lib"), Same("dist"), Same("build"),
      Same("packages/a"),
      Same("apps/a"),
      Same("actors/a/.actor"),
      Candidate(ActorJsonAt("actors/a"), ActorJsonAt("actors/a/.actor")),
      Same("actors/b/.actor"),
      Candidate(ActorJsonAt("actors/b"), ActorJsonAt("actors/b/.actor")),
      Same("libs/a")>>

\* what getContent gives for a candidate: an error, a file, or a listing
PathKinds == {"none", "file", "dir"}

\* the repositories: each candidate a file or not there, and the first one
\* possibly a directory
Repositories ==
    {r \in [1..Len(Candidates) -> PathKinds] :
        \A i \in 2..Len(Candidates) : r[i] # "dir"}

\* A faulty test of the response: whatever is there counts
IsThere(kind) == kind # "none"

\* !Array.isArray(response.data) && response.data.type === 'file'
IsFile(kind) == kind = "file"

\* actorJsonPath.replace(/actor\.json$/, 'dataset_schema.json')
DatasetSchemaPath(path) ==
    IF path.name = "actor.json" THEN [path EXCEPT !.name = "dataset_schema.json"]
    ELSE path

\* throw new Error('actor.json file not found in any common locations...'),
\* as the catch of findActorJson rethrows it
NotFoundError ==
    handleError("Failed to find actor.json",
        ErrorOf(<<"actor.json file not found in any common locations">>))

\* run() of CreatePRService has reached step 3, for one target
LocateInputs == {PatchInput}

InitLocate ==
    /\ \E in \in LocateInputs : Constructed(in)
    /\ pc = "locating"
    /\ LoopIdle
    /\ RunnerIdle
    /\ PublisherIdle
    /\ MainIdle
    /\ RefinerIdle
    /\ SamplingIdle
    /\ PatchIdle
    /\ PollingIdle
    /\ lpc = "probing"
    /\ repoFiles \in Repositories
    /\ probeIdx = 1
    /\ actorJsonResponse = NoActorJson
    /\ commitPaths = <<>>

locRest == <<ctlVars, loopVars, runVars, mainVars, refVars, sampVars, patchVars,
             pollVars>>

\* one getContent of a candidate, and the return when it is a file
Probe ==
    /\ lpc = "probing"
    /\ probeIdx <= Len(Candidates)
    /\ IF IsFile(repoFiles[probeIdx])
       THEN /\ actorJsonResponse' =
                  [content |-> Candidates[probeIdx].probe,
                   path |-> Candidates[probeIdx].returns]
            /\ lpc' = "found"
            /\ probeIdx' = probeIdx
       ELSE /\ probeIdx' = probeIdx + 1
            /\ UNCHANGED <<lpc, actorJsonResponse>>
    /\ UNCHANGED <<repoFiles, commitPaths>>
    /\ UNCHANGED pubVars
    /\ UNCHANGED locRest

\* no candidate is left: findActorJson throws, and run() returns the failure
NotFound ==
    /\ lpc = "probing"
    /\ probeIdx > Len(Candidates)
    /\ PublisherCatch(NotFoundError)
    /\ lpc' = "returned"
    /\ UNCHANGED <<repoFiles, probeIdx, actorJsonResponse, commitPaths>>
    /\ UNCHANGED <<ptrace, repoVars>>
    /\ UNCHANGED locRest

\* run(), step 8: const files = [{ path: actorJsonPath }, { path: datasetSchemaPath }]
PrepareFiles ==
    /\ lpc = "found"
    /\ commitPaths' = <<actorJsonResponse.path, DatasetSchemaPath(actorJsonResponse.path)>>
    /\ lpc' = "prepared"
    /\ UNCHANGED <<repoFiles, probeIdx, actorJsonResponse>>
    /\ UNCHANGED pubVars
    /\ UNCHANGED locRest

NextLocate ==
    \/ Probe
    \/ NotFound
    \/ PrepareFiles

SpecLocate == InitLocate /\ [][NextLocate]_vars

\* the candidates that are files in the repository
FilesAmong == {i \in 1..Len(Candidates) : repoFiles[i] = "file"}

----------------------------------------------------------------------------
(* Properties of the artifact (SpecPatch): the views of the metadata file *)

\* the view configurations of the metadata text: the one at the top level
\* and the one under storages.dataset
TopLevelViews == JSONparse(originalContent).members.views
DatasetViews == OriginalViews(originalContent)

\* the view configurations the patch has taken out of the metadata text
RemovedViews ==
    {v \in {TopLevelViews, DatasetViews} : Truthy(v)}

\* C33, as the specification states it: when the metadata text carries a view
\* configuration, the views of the artifact are that configuration and not a
\* generated overview, and every view configuration the patch removes from
\* the metadata text is in the artifact.
C33_ViewsRelocated ==
    jpc = "patched" =>
        /\ RemovedViews # {} => datasetSchema.views \in RemovedViews
        /\ \A v \in RemovedViews : datasetSchema.views = v

\* what the code does: only the views under storages.dataset are carried
\* over to the artifact; views at the top level are deleted by the patch and
\* the artifact gets a generated overview in their place
C33_DatasetViewsRelocated ==
    jpc = "patched" =>
        /\ datasetSchema.views =
              IF Truthy(DatasetViews) THEN DatasetViews
              ELSE generateViewsFromFields(datasetSchema.fields.properties)
        /\ Truthy(TopLevelViews) =>
              /\ updatedContent.members.views = Absent
              /\ datasetSchema.views # TopLevelViews

\* views at the top level only: the patch has deleted them, and the artifact
\* holds a generated overview
C33_Witness ==
    /\ jpc = "patched"
    /\ TopLevelViews = JObject([overview |-> JString("of the actor")])
    /\ ~Truthy(DatasetViews)
    /\ updatedContent.members.views = Absent
    /\ datasetSchema.views = generateViewsFromFields(FieldNames)


----------------------------------------------------------------------------
(* The artifact for every schema in both shapes (SpecArtifact) *)

\* metadata texts with and without views under storages.dataset
ArtifactDocuments ==
    {d \in Documents :
        /\ d.members.minMemoryMbytes = Absent
        /\ d.members.environmentVariables = Absent
        /\ d.members.views = Absent
        /\ d.members.storages.t = "object"
        /\ d.members.storages.members.keyValueStore = Absent}

InitArtifact ==
    /\ Constructed(PatchInput)
    /\ pc = "patching"
    /\ LoopIdle
    /\ RunnerIdle
    /\ PublisherIdle
    /\ MainIdle
    /\ RefinerIdle
    /\ SamplingIdle
    /\ PollingIdle
    /\ LocateIdle
    /\ jpc = "process"
    /\ originalContent \in ArtifactDocuments
    /\ updatedContent = NoDocument
    /\ schemaInput \in SchemaInputs
    /\ datasetSchema = NoArtifact

SpecArtifact == InitArtifact /\ [][NextPatch]_vars

\* what a `fields` document says: the names of its fields, its required
\* names (none when the list is left out) and whether further properties are
\* allowed (they are when additionalProperties is left out)
Meaning(fields) ==
    [names |-> fields.properties,
     required |-> fields.required.names,
     additional |-> fields.additionalProperties # "false"]

\* the `fields` document of the artifact built from the bare schema
FieldsOfBare(s, content) == BuildArtifact([shape |-> "bare", schema |-> s], content).fields

\* C34, as the specification states it: for every schema S of type object
\* with properties, the artifact built from the wrapper {fields: S} has the
\* `fields` document of the artifact built from S itself: the same field
\* names, required names and additionalProperties.
C34_ShapesEquivalent ==
    (datasetSchema.built /\ schemaInput.shape = "wrapper") =>
        Meaning(datasetSchema.fields)
            = Meaning(FieldsOfBare(schemaInput.schema, originalContent))

\* what the code does: the field names and the required names agree, but the
\* wrapper's additionalProperties is read with `|| true`, so it is true in
\* the artifact whatever S says, while the bare schema is copied as it is
C34_ShapesAgreeButAdditional ==
    (datasetSchema.built /\ schemaInput.shape = "wrapper") =>
        LET w == Meaning(datasetSchema.fields)
            b == Meaning(FieldsOfBare(schemaInput.schema, originalContent))
        IN  /\ w.names = b.names
            /\ w.required = b.required
            /\ w.additional
            /\ b.additional = (schemaInput.schema.additionalProperties # "false")

\* a wrapper whose schema forbids further properties: the artifact allows them
C34_Witness ==
    /\ datasetSchema.built
    /\ schemaInput.shape = "wrapper"
    /\ schemaInput.schema.properties = FieldNames
    /\ schemaInput.schema.additionalProperties = "false"
    /\ datasetSchema.fields.additionalProperties = "true"
    /\ FieldsOfBare(schemaInput.schema, originalContent).additionalProperties = "false"


----------------------------------------------------------------------------
(* Properties of the search (SpecLocate): the path that is returned *)

\* C35, as the specification states it: the content findActorJson returns
\* is the content of the file at the path it returns, wherever the file is
\* found, so the two files are committed in the directory of the file that
\* was read.
C35_ContentAtReturnedPath ==
    /\ lpc \in {"found", "prepared"} =>
          actorJsonResponse.content = actorJsonResponse.path
    /\ lpc = "prepared" =>
          \A i \in 1..Len(commitPaths) :
              commitPaths[i].dir = actorJsonResponse.content.dir

\* what the code does: the returned path is the path that was read, except
\* for a file found as actors/<name>/actor.json, for which the path
\* actors/<name>/.actor/actor.json is returned; the two files are committed
\* in the directory of the returned path
C35_PathOfSiblingCandidate ==
    /\ lpc \in {"found", "prepared"} =>
          /\ actorJsonResponse.content = Candidates[probeIdx].probe
          /\ actorJsonResponse.path = Candidates[probeIdx].returns
          /\ (actorJsonResponse.content # actorJsonResponse.path) <=>
                actorJsonResponse.content
                    \in {ActorJsonAt("actors/a"), ActorJsonAt("actors/b")}
    /\ lpc = "prepared" =>
          /\ commitPaths[1] = actorJsonResponse.path
          /\ commitPaths[2] = [dir |-> actorJsonResponse.path.dir,
                               name |-> "dataset_schema.json"]

\* the only actor.json of the repository is actors/a/actor.json, and the two
\* files are going to be committed under actors/a/.actor
C35_Witness ==
    /\ lpc = "prepared"
    /\ FilesAmong = {10}
    /\ actorJsonResponse.content = ActorJsonAt("actors/a")
    /\ commitPaths[1] = ActorJsonAt("actors/a/.actor")
    /\ commitPaths[2].dir = "actors/a/.actor"


----------------------------------------------------------------------------
(* Properties of the variant runs (SpecRunner): the shape of a RunResult *)

\* the positions of the collected results that stem from a call that rejected
Thrown == {i \in 1..Len(runResults) : rstate[runResults[i].variant] = "throw"}

\* C36: every RunResult of runActorWithInputs has success = true exactly
\* when it carries a dataset id, and the result of a call that rejected
\* carries neither a dataset id nor a run id, so collectDatasetIds neither
\* asks for its run again nor collects a dataset for it.
C36_RunResultShape ==
    /\ \A v \in Variants :
          Settled(v) =>
             /\ rresult[v].success <=> (rresult[v].datasetId # Null)
             /\ rstate[v] = "throw" =>
                   rresult[v].datasetId = Null /\ rresult[v].runId = Null
    /\ \A i \in Thrown :
          /\ rquery[runResults[i].variant] = "notAsked"
          /\ \A j \in 1..Len(datasetIds) :
                datasetIds[j] # DatasetIdOf(runResults[i].variant)

\* one call rejected, one run ended without a dataset and its dataset was
\* found by asking again, and the collection is over
C36_Witness ==
    /\ rpc = "collecting"
    /\ ci > Len(runResults)
    /\ rstate["minimal"] = "throw"
    /\ rstate["normal"] = "noDataset"
    /\ rquery["normal"] = "handle"
    /\ rstate["maximal"] = "dataset"
    /\ Len(datasetIds) = 2


----------------------------------------------------------------------------
(* Properties of the controller (Spec): validation before publication *)

\* C37: in a run with the validation stage enabled, CreatePRService is
\* called only in a step taken with the schemaValidation slot already
\* 'completed'; the validator has then been called, and with the schema
\* that is handed to CreatePRService.
C37_ValidatedBeforePublished ==
    /\ [][(input.validateSchema /\ calls'.publisher > calls.publisher) =>
             /\ progress["schemaValidation"] = "completed"
             /\ calls.schemaValidator > 0
             /\ publishedSchema' = validatedSchema]_vars
    /\ [](input.validateSchema /\ calls.publisher > 0 =>
             progress["schemaValidation"] = "completed")

\* CreatePRService has been called in a run whose validation stage is enabled
C37_Witness ==
    /\ input.validateSchema
    /\ calls.publisher = 1
    /\ calls.schemaValidator = 1
    /\ progress["schemaValidation"] = "completed"


----------------------------------------------------------------------------
(* Properties of the controller (Spec): failure and success in the progress map *)

FailedSlots == {s \in Slots : progress[s] = "failed"}

\* C38: at most one slot of the progress map is 'failed' at any time; once
\* a slot is 'failed' no step of the run changes the progress map; and when
\* run() has returned success, the slot of every enabled stage is
\* 'completed' and the slot of every disabled stage is 'skipped'.
C38_FailureIsFinal ==
    /\ [](Cardinality(FailedSlots) <= 1)
    /\ [][FailedSlots # {} => progress' = progress]_vars
    /\ [](output.returned /\ output.success =>
             \A i \in Stages :
                 progress[StageOrder[i]] =
                     IF Enabled(StageOrder[i]) THEN "completed" ELSE "skipped")

\* validation has failed after two completed stages and a disabled one,
\* with PR creation enabled and never begun
C38_Witness ==
    /\ FailedSlots = {"schemaValidation"}
    /\ pc = "failed"
    /\ ~input.generateInputs
    /\ progress["inputGeneration"] = "skipped"
    /\ progress["schemaGeneration"] = "completed"
    /\ progress["schemaEnhancement"] = "completed"
    /\ input.createPR
    /\ progress["prCreation"] = "skipped"


----------------------------------------------------------------------------
(* Properties of the sampling (SpecSampling): a single dataset *)

\* the Redash query has returned exactly one dataset id
OneDataset == Len(redashIds) = 1

\* C39: when the Redash query returns exactly one dataset id, the split puts
\* it in validationDatasets and leaves generationDatasets empty, nothing is
\* sampled, generateSchemaFromSamples is never reached, and
\* generateSchemaFromDatasets fails with the sampling error, carrying the id
\* as its validationDatasets.
C39_SingleDatasetFails ==
    /\ [](OneDataset /\ SplitDone =>
             /\ generationDatasets = <<>>
             /\ validationDatasets = redashIds
             /\ datasetsWithSamples = <<>>)
    /\ [](OneDataset => spc # "generate" /\ ~fromDatasets.success)
    /\ [][OneDataset => spc' # "generate"]_vars
    /\ [](OneDataset /\ fromDatasets.returned =>
             fromDatasets = SamplingFailure("Failed to sample data from any datasets",
                                            redashIds))

\* generateSchemaFromRedashDatasets has returned the sampling error for a
\* single dataset
C39_Witness ==
    /\ OneDataset
    /\ spc = "done"
    /\ validationDatasets = redashIds
    /\ fromDatasets.returned
    /\ fromRedash.returned
    /\ fromRedash.error = "Failed to sample data from any datasets"


----------------------------------------------------------------------------
(* Properties of the controller (Spec): the summary of the validation *)

\* the validation stage has completed
ValidationCompleted == progress["schemaValidation"] = "completed"

\* C40: for a non-empty list of datasets, no result item from the validation
\* actor makes processValidation report every dataset valid, none invalid and
\* successRate 1.0, which validateSchema lets pass; with at least one result
\* item successRate is the number of valid items over the number of items,
\* whatever the number of datasets submitted; and a completed validation
\* stage holds such an outcome.
C40_NoItemsAllValid ==
    /\ \A d \in 1..MaxDatasets :
          LET vr == processValidation(d, 0, 0)
          IN  /\ vr.totalDatasets = d
              /\ vr.validDatasets = d
              /\ vr.invalidDatasets = 0
              /\ vr.rateNum = 1 /\ vr.rateDen = 1
              /\ ~BelowFullRate(vr)
    /\ \A d \in 1..MaxDatasets, n \in 1..MaxItems :
          \A k \in 0..n :
              LET vr == processValidation(d, n, k)
              IN  /\ vr.rateNum * n = k * vr.rateDen
                  /\ vr.rateDen > 0
                  /\ vr.validDatasets = k
                  /\ vr.invalidDatasets = n - k
                  /\ \A e \in 1..MaxDatasets :
                        processValidation(e, n, k).rateNum = vr.rateNum
                        /\ processValidation(e, n, k).rateDen = vr.rateDen
    /\ ValidationCompleted =>
          /\ \E d \in 1..MaxDatasets, n \in 0..MaxItems :
                validationResults = processValidation(d, n, n)
          /\ validationResults.rateNum = validationResults.rateDen

\* the validation stage has completed on two datasets for which the
\* validation actor returned no result item
C40_Witness ==
    /\ ValidationCompleted
    /\ calls.schemaValidator = 1
    /\ validationResults = processValidation(MaxDatasets, 0, 0)
    /\ validationResults.validDatasets = MaxDatasets

====
